---- MODULE Spec2Model ----
(***************************************************************************)
(* Chord analysis library (chordAnalysis.ts): naming tables, enharmonic    *)
(* spelling, tension disambiguation, the chord pattern catalog, and the    *)
(* matching / scoring / refinement engine analyzeChord.                    *)
(* Around it, the application (ChorduroyApp): the chord panel, the         *)
(* training game, the MIDI engine with its pedal buffer, and the sequence  *)
(* store (useSequenceStore) that holds the cards of the history.           *)
(*                                                                         *)
(* JavaScript strings are TLA+ strings; arrays are sequences; a Set is a   *)
(* set; `undefined` for an optional array argument is the empty sequence   *)
(* of arguments (<<>>) and a supplied array a is <<a>>.                    *)
(***************************************************************************)
EXTENDS Integers, Sequences, FiniteSets, TLC

VARIABLES
    activeNotes,     \* the caller's array, as the last call of analyzeChord left it
    passedNotes,     \* the contents of that array when the call was made
    matches,         \* the Match list of that call, in generation order
    result,          \* what that call returned
    prevNotes,       \* the caller's array of the call before it
    prevResult,      \* what the call before it returned
    CHORD_PATTERNS,  \* the catalog objects (mutable JS objects, shared by all calls)
    firstBest,       \* <<the Match that call took after the sort>>, or <<>>
    bestTrace,       \* best and its pattern name as that call entered the refinement and
                     \* left each of its three blocks, or <<>>
    calls,           \* number of calls made so far
    relation,        \* how the caller derived the array of that call from the one before
    helperArgs,      \* the arguments handed to an exported helper function
    helperValue,     \* what the helper function returned for them
    noteNames,       \* the note names the chord panel shows, one for each sounding note
    targetChord,     \* training: <<the chord to play>>, or <<>> for null
    trainingScore,   \* training: points scored (score)
    feedback,        \* training: "correct", or "null"
    hasMatchedRef,   \* training: the target was matched and the next one is on its way
    master,          \* sequence store: the cards of sequence.tracks.master
    selectedCardIds, \* sequence store: the selected ids, in selection order
    selectionAnchor, \* sequence store: <<id>>, or <<>> for null
    nextId,          \* the number of ids generateId has issued
    activeNotesRef,  \* MIDI: the notes held (activeNotesRef.current)
    isPedalDownRef,  \* MIDI: the sustain pedal is down
    noteBufferRef,   \* MIDI: the {note, time} events recorded under the pedal
    clusterTimerRef, \* MIDI: <<the time the idle flush is due>>, or <<>> for null
    now,             \* performance.now(), in milliseconds
    pedalNotes       \* history: the notes held at a pedal-down or struck under the pedal

vars == <<activeNotes, passedNotes, matches, result, prevNotes, prevResult, CHORD_PATTERNS, firstBest, calls, relation,
          helperArgs, helperValue, bestTrace, noteNames, targetChord, trainingScore, feedback, hasMatchedRef,
          master, selectedCardIds, selectionAnchor, nextId,
          activeNotesRef, isPedalDownRef, noteBufferRef, clusterTimerRef, now, pedalNotes>>

\* the state of the analysis library and of its callers
libVars == <<activeNotes, passedNotes, matches, result, prevNotes, prevResult, CHORD_PATTERNS, firstBest,
             bestTrace, calls, relation, helperArgs, helperValue>>

\* the state of the application around the analysis library
trainingVars == <<targetChord, trainingScore, feedback, hasMatchedRef>>
storeVars == <<master, selectedCardIds, selectionAnchor, nextId>>
midiVars == <<activeNotesRef, isPedalDownRef, noteBufferRef, clusterTimerRef, now, pedalNotes>>
appVars == <<noteNames, trainingVars, storeVars, midiVars>>

\* ---------------------------------------------------------------------------
\* JavaScript primitives
\* ---------------------------------------------------------------------------

\* JS remainder: the sign follows the dividend.
JsRem(a, b) == IF a >= 0 THEN a % b ELSE 0 - ((0 - a) % b)

Min(S) == CHOOSE x \in S : \A y \in S : x <= y
Max(S) == 0 - Min({0 - x : x \in S})

Range(s) == {s[i] : i \in DOMAIN s}

\* Array.prototype.includes / every-has on arrays of numbers
ArrIncludes(arr, x) == \E i \in DOMAIN arr : arr[i] = x

\* Array.prototype.filter
Filter(arr, Keep(_)) == SelectSeq(arr, Keep)

\* [...a].sort((a, b) => a - b): ascending numeric sort of an array
RECURSIVE SortAsc(_)
SortAsc(arr) ==
    IF Len(arr) = 0 THEN <<>>
    ELSE LET m == Min(Range(arr))
         IN  SelectSeq(arr, LAMBDA x : x = m) \o SortAsc(SelectSeq(arr, LAMBDA x : x # m))

\* Array.from(new Set(arr)): first occurrences, in order
RECURSIVE Dedup(_)
Dedup(arr) ==
    IF Len(arr) = 0 THEN <<>>
    ELSE <<arr[1]>> \o Dedup(SelectSeq(Tail(arr), LAMBDA x : x # arr[1]))

\* String.prototype.includes
StrIncludes(s, sub) ==
    \E i \in 1..(Len(s) - Len(sub) + 1) : SubSeq(s, i, i + Len(sub) - 1) = sub

StartsWith(s, p) == Len(s) >= Len(p) /\ SubSeq(s, 1, Len(p)) = p
EndsWith(s, p) == Len(s) >= Len(p) /\ SubSeq(s, Len(s) - Len(p) + 1, Len(s)) = p

\* String.prototype.replace(sub, new) with a string pattern: first occurrence only
StrReplace(s, sub, new) ==
    IF ~StrIncludes(s, sub) THEN s
    ELSE LET i == Min({j \in 1..(Len(s) - Len(sub) + 1) : SubSeq(s, j, j + Len(sub) - 1) = sub})
         IN  SubSeq(s, 1, i - 1) \o new \o SubSeq(s, i + Len(sub), Len(s))

\* Array.prototype.join(sep) on an array of strings
RECURSIVE Join(_, _)
Join(arr, sep) ==
    IF Len(arr) = 0 THEN ""
    ELSE IF Len(arr) = 1 THEN arr[1]
    ELSE arr[1] \o sep \o Join(Tail(arr), sep)

RECURSIVE FlattenFrom(_, _)
FlattenFrom(ss, i) == IF i > Len(ss) THEN <<>> ELSE ss[i] \o FlattenFrom(ss, i + 1)

\* concatenation of the arrays pushed by successive loop iterations
Flatten(ss) == FlattenFrom(ss, 1)

\* ---------------------------------------------------------------------------
\* Music theory constants and enharmonic spelling
\* ---------------------------------------------------------------------------

NOTES == <<"C", "C#", "D", "D#", "E", "F", "F#", "G", "G#", "A", "A#", "B">>
NOTES_FLAT == <<"C", "Db", "D", "Eb", "E", "F", "Gb", "G", "Ab", "A", "Bb", "B">>

getNoteName(pitchClass, preferFlat) ==
    IF preferFlat THEN NOTES_FLAT[pitchClass + 1] ELSE NOTES[pitchClass + 1]

\* ROOT_SPELLING[root].scale is indexed from 0 in the source: scale[i] is Scale(root, i)
ROOT_SPELLING ==
    [r \in 0..11 |->
        CASE r = 0  -> [useFlat |-> FALSE, scale |-> <<"C", "Db", "D", "Eb", "E", "F", "F#", "G", "Ab", "A", "Bb", "B">>]
          [] r = 1  -> [useFlat |-> FALSE, scale |-> <<"C#", "D", "D#", "E", "E#", "F#", "G", "G#", "A", "A#", "B", "B#">>]
          [] r = 2  -> [useFlat |-> FALSE, scale |-> <<"D", "Eb", "E", "F", "F#", "G", "Ab", "A", "Bb", "B", "C", "C#">>]
          [] r = 3  -> [useFlat |-> TRUE,  scale |-> <<"Eb", "Fb", "F", "Gb", "G", "Ab", "A", "Bb", "Cb", "C", "Db", "D">>]
          [] r = 4  -> [useFlat |-> FALSE, scale |-> <<"E", "F", "F#", "G", "G#", "A", "Bb", "B", "C", "C#", "D", "D#">>]
          [] r = 5  -> [useFlat |-> TRUE,  scale |-> <<"F", "Gb", "G", "Ab", "A", "Bb", "B", "C", "Db", "D", "Eb", "E">>]
          [] r = 6  -> [useFlat |-> FALSE, scale |-> <<"F#", "G", "G#", "A", "A#", "B", "C", "C#", "D", "D#", "E", "E#">>]
          [] r = 7  -> [useFlat |-> FALSE, scale |-> <<"G", "Ab", "A", "Bb", "B", "C", "Db", "D", "Eb", "E", "F", "F#">>]
          [] r = 8  -> [useFlat |-> TRUE,  scale |-> <<"Ab", "A", "Bb", "Cb", "C", "Db", "D", "Eb", "Fb", "F", "Gb", "G">>]
          [] r = 9  -> [useFlat |-> FALSE, scale |-> <<"A", "Bb", "B", "C", "C#", "D", "Eb", "E", "F", "F#", "G", "G#">>]
          [] r = 10 -> [useFlat |-> TRUE,  scale |-> <<"Bb", "Cb", "C", "Db", "D", "Eb", "Fb", "F", "Gb", "G", "Ab", "A">>]
          [] OTHER  -> [useFlat |-> FALSE, scale |-> <<"B", "C", "C#", "D", "D#", "E", "F", "F#", "G", "G#", "A", "A#">>]]

Scale(root, i) == ROOT_SPELLING[root].scale[i + 1]

\* variant: every root takes its sharp name
getRootSpelling_m1(rootPitchClass, bassContext) == getNoteName(rootPitchClass, FALSE)

\* variant: pitch class 1 is Db only when sharp indicators come with the flat ones
getRootSpelling_m2(rootPitchClass, bassContext) ==
    LET given == Len(bassContext) > 0
        has(x) == given /\ ArrIncludes(bassContext[1], x)
        hasSharpIndicators == has(6) \/ has(1) \/ has(8) \/ has(4) \/ has(11)
        hasFlatIndicators == has(10) \/ has(3) \/ has(5)
    IN  CASE rootPitchClass = 1 ->
                IF hasFlatIndicators /\ hasSharpIndicators THEN "Db" ELSE "C#"
          [] rootPitchClass = 3 ->
                IF hasSharpIndicators /\ ~hasFlatIndicators /\ (has(4) \/ has(11) \/ has(6))
                THEN "D#" ELSE "Eb"
          [] rootPitchClass = 6 ->
                IF hasFlatIndicators /\ given /\ (has(1) \/ has(8)) /\ ~has(4) /\ ~has(11)
                THEN "Gb" ELSE "F#"
          [] rootPitchClass = 8 ->
                IF hasSharpIndicators /\ ~hasFlatIndicators /\ (has(4) \/ has(9) \/ has(11))
                THEN "G#" ELSE "Ab"
          [] rootPitchClass = 10 ->
                IF hasSharpIndicators /\ ~hasFlatIndicators /\ (has(11) \/ has(6))
                THEN "A#" ELSE "Bb"
          [] OTHER -> Scale(rootPitchClass, 0)

\* bassContext is <<>> (argument omitted) or <<array of pitch classes>>
getRootSpelling(rootPitchClass, bassContext) ==
    LET given == Len(bassContext) > 0
        has(x) == given /\ ArrIncludes(bassContext[1], x)
        hasSharpIndicators == has(6) \/ has(1) \/ has(8) \/ has(4) \/ has(11)
        hasFlatIndicators == has(10) \/ has(3) \/ has(5)
    IN  CASE rootPitchClass = 1 ->
                IF hasFlatIndicators /\ ~hasSharpIndicators THEN "Db" ELSE "C#"
          [] rootPitchClass = 3 ->
                IF hasSharpIndicators /\ ~hasFlatIndicators /\ (has(4) \/ has(11) \/ has(6))
                THEN "D#" ELSE "Eb"
          [] rootPitchClass = 6 ->
                IF hasFlatIndicators /\ given /\ (has(1) \/ has(8)) /\ ~has(4) /\ ~has(11)
                THEN "Gb" ELSE "F#"
          [] rootPitchClass = 8 ->
                IF hasSharpIndicators /\ ~hasFlatIndicators /\ (has(4) \/ has(9) \/ has(11))
                THEN "G#" ELSE "Ab"
          [] rootPitchClass = 10 ->
                IF hasSharpIndicators /\ ~hasFlatIndicators /\ (has(11) \/ has(6))
                THEN "A#" ELSE "Bb"
          [] OTHER -> Scale(rootPitchClass, 0)

getChordToneSpelling(pitchClass, rootPitchClass) ==
    LET interval == JsRem(JsRem(pitchClass - rootPitchClass, 12) + 12, 12)
    IN  Scale(rootPitchClass, interval)

shouldPreferFlat(rootPitchClass) == ROOT_SPELLING[rootPitchClass].useFlat

\* the sharp spelling of a scale degree: a flat is removed, otherwise a sharp is appended
\* variant: the degree's own name, not raised
getSharpSpelling_m1(rootPitchClass, scaleDegree) == Scale(rootPitchClass, scaleDegree)

getSharpSpelling(rootPitchClass, scaleDegree) ==
    LET baseNote == Scale(rootPitchClass, scaleDegree)
    IN  IF StrIncludes(baseNote, "b") THEN StrReplace(baseNote, "b", "")
        ELSE IF StrIncludes(baseNote, "#") THEN baseNote \o "#"
        ELSE baseNote \o "#"

\* the three spellings of each ambiguous interval (1: b9, 3: #9 or b3, 6: #11 or b5, 8: b13 or #5)
getTensionSpellings(rootPitchClass) ==
    [i \in {1, 3, 6, 8} |->
        CASE i = 1 -> [natural |-> Scale(rootPitchClass, 1),
                       sharp   |-> Scale(rootPitchClass, 1),
                       flat    |-> Scale(rootPitchClass, 1)]
          [] i = 3 -> [natural |-> Scale(rootPitchClass, 3),
                       sharp   |-> getSharpSpelling(rootPitchClass, 2),
                       flat    |-> Scale(rootPitchClass, 3)]
          [] i = 6 -> [natural |-> Scale(rootPitchClass, 6),
                       sharp   |-> getSharpSpelling(rootPitchClass, 5),
                       flat    |-> Scale(rootPitchClass, 6)]
          [] OTHER -> [natural |-> Scale(rootPitchClass, 8),
                       sharp   |-> getSharpSpelling(rootPitchClass, 7),
                       flat    |-> Scale(rootPitchClass, 8)]]

\* variant: the octave-aware thresholds are not applied
getTensionQuality_m1(patternName, interval, actualInterval) ==
    CASE interval = 3 -> IF StrIncludes(patternName, "#9") THEN "sharp" ELSE "natural"
      [] interval = 6 -> IF StrIncludes(patternName, "#11") THEN "sharp" ELSE "flat"
      [] interval = 8 -> IF StrIncludes(patternName, "b13") THEN "flat" ELSE "sharp"
      [] interval = 1 -> "flat"
      [] OTHER -> "natural"

\* actualInterval is <<>> (argument omitted) or <<n>>
getTensionQuality(patternName, interval, actualInterval) ==
    IF Len(actualInterval) > 0 /\ interval = 3 THEN
        IF actualInterval[1] >= 14 THEN "sharp"
        ELSE IF StrIncludes(patternName, "#9") THEN "sharp"
        ELSE "natural"
    ELSE IF Len(actualInterval) > 0 /\ interval = 6 THEN
        IF actualInterval[1] >= 17 THEN "sharp"
        ELSE IF StrIncludes(patternName, "#11") THEN "sharp"
        ELSE IF StrIncludes(patternName, "b5") THEN "flat"
        ELSE "flat"
    ELSE IF Len(actualInterval) > 0 /\ interval = 8 THEN
        IF actualInterval[1] >= 19 THEN "flat"
        ELSE IF StrIncludes(patternName, "b13") THEN "flat"
        ELSE IF StrIncludes(patternName, "#5") \/ StrIncludes(patternName, "aug") THEN "sharp"
        ELSE "sharp"
    ELSE IF interval = 3 THEN
        IF StrIncludes(patternName, "#9") THEN "sharp" ELSE "natural"
    ELSE IF interval = 6 THEN
        IF StrIncludes(patternName, "#11") THEN "sharp"
        ELSE IF StrIncludes(patternName, "b5") THEN "flat"
        ELSE "natural"
    ELSE IF interval = 8 THEN
        IF StrIncludes(patternName, "#5") \/ StrIncludes(patternName, "aug") THEN "sharp"
        ELSE IF StrIncludes(patternName, "b13") THEN "flat"
        ELSE "natural"
    ELSE IF interval = 1 THEN "flat"
    ELSE "natural"

getChordToneWithTension(pitchClass, rootPitchClass, patternName, actualInterval) ==
    LET interval == JsRem(JsRem(pitchClass - rootPitchClass, 12) + 12, 12)
    IN  IF ~ArrIncludes(<<1, 3, 6, 8>>, interval) THEN Scale(rootPitchClass, interval)
        ELSE LET quality == getTensionQuality(patternName, interval, actualInterval)
                 spellings == getTensionSpellings(rootPitchClass)
             IN  IF interval \in DOMAIN spellings THEN spellings[interval][quality]
                 ELSE Scale(rootPitchClass, interval)

\* ---------------------------------------------------------------------------
\* Interval calculations
\* ---------------------------------------------------------------------------

\* variant: the remainder is taken once, without the + 12
normalizeIntervals_m1(intervals) ==
    SortAsc(Dedup([k \in DOMAIN intervals |-> JsRem(intervals[k], 12)]))

normalizeIntervals(intervals) ==
    SortAsc(Dedup([k \in DOMAIN intervals |-> JsRem(JsRem(intervals[k], 12) + 12, 12)]))

\* variant: intervals measured from a fixed octave instead of the played root
calculateActualIntervals_m1(sortedMidiNotes, rootPitchClass) ==
    [k \in DOMAIN sortedMidiNotes |->
        [pitchClass |-> JsRem(sortedMidiNotes[k], 12),
         actualInterval |-> sortedMidiNotes[k] - (48 + rootPitchClass),
         midi |-> sortedMidiNotes[k]]]

\* variant: the root is always placed at or below the lowest note
calculateActualIntervals_m2(sortedMidiNotes, rootPitchClass) ==
    [k \in DOMAIN sortedMidiNotes |->
        [pitchClass |-> JsRem(sortedMidiNotes[k], 12),
         actualInterval |-> sortedMidiNotes[k]
                            - (sortedMidiNotes[1]
                               - JsRem(JsRem(JsRem(sortedMidiNotes[1], 12) - rootPitchClass, 12) + 12, 12)),
         midi |-> sortedMidiNotes[k]]]

\* ActualIntervalInfo[] for the sorted notes, measured from the inferred root MIDI
calculateActualIntervals(sortedMidiNotes, rootPitchClass) ==
    IF Len(sortedMidiNotes) = 0 THEN <<>>
    ELSE
      LET rootInstances == Filter(sortedMidiNotes, LAMBDA n : JsRem(n, 12) = rootPitchClass)
          lowestNote == sortedMidiNotes[1]
          lowestPitchClass == JsRem(lowestNote, 12)
          intervalFromRoot == JsRem(JsRem(lowestPitchClass - rootPitchClass, 12) + 12, 12)
          rootMidi == IF Len(rootInstances) > 0 THEN Min(Range(rootInstances))
                      ELSE lowestNote - intervalFromRoot
      IN  [k \in DOMAIN sortedMidiNotes |->
              [pitchClass |-> JsRem(sortedMidiNotes[k], 12),
               actualInterval |-> sortedMidiNotes[k] - rootMidi,
               midi |-> sortedMidiNotes[k]]]

getActualIntervalForPitchClass(actualIntervals, targetPitchClass, rootPitchClass) ==
    LET expectedMod12 == JsRem(JsRem(targetPitchClass - rootPitchClass, 12) + 12, 12)
        found == Filter(actualIntervals, LAMBDA info : info.pitchClass = targetPitchClass)
        compound == Filter(found, LAMBDA m : m.actualInterval > 12)
    IN  IF Len(found) = 0 THEN expectedMod12
        ELSE IF Len(compound) > 0 THEN compound[1].actualInterval
        ELSE Min({found[k].actualInterval : k \in DOMAIN found})

\* variant: tensions named from the pitch classes alone, whatever the voicing
disambiguateTensions_m1(actualIntervals, rootPitchClass, hasMaj3, hasMin3, has7th, hasPerfect5) ==
    [interval3IsSharp9 |-> hasMaj3, interval6IsSharp11 |-> hasPerfect5 /\ hasMaj3,
     interval8IsSharp5 |-> ~hasPerfect5 /\ ~has7th]

disambiguateTensions(actualIntervals, rootPitchClass, hasMaj3, hasMin3, has7th, hasPerfect5) ==
    LET pitchClass3 == JsRem(rootPitchClass + 3, 12)
        interval3Actual == getActualIntervalForPitchClass(actualIntervals, pitchClass3, rootPitchClass)
        maj3PitchClass == JsRem(rootPitchClass + 4, 12)
        maj3Instances == Filter(actualIntervals, LAMBDA i : i.pitchClass = maj3PitchClass)
        pc3Instances == Filter(actualIntervals, LAMBDA i : i.pitchClass = pitchClass3)
        lowestMaj3 == Min({maj3Instances[k].midi : k \in DOMAIN maj3Instances})
        lowestPc3 == Min({pc3Instances[k].midi : k \in DOMAIN pc3Instances})
        sharp9 ==
            IF interval3Actual >= 14 THEN TRUE
            ELSE IF hasMaj3 THEN
                IF Len(maj3Instances) > 0 /\ Len(pc3Instances) > 0 THEN lowestPc3 > lowestMaj3
                ELSE has7th /\ Len(pc3Instances) > 0
            ELSE FALSE
        pitchClass6 == JsRem(rootPitchClass + 6, 12)
        interval6Actual == getActualIntervalForPitchClass(actualIntervals, pitchClass6, rootPitchClass)
        hasMaj7 == \E k \in DOMAIN actualIntervals :
                      JsRem(actualIntervals[k].pitchClass - rootPitchClass + 12, 12) = 11
        sharp11 ==
            IF interval6Actual >= 17 THEN TRUE
            ELSE IF hasPerfect5 /\ hasMaj3 THEN TRUE
            ELSE IF has7th /\ hasMaj3 /\ ~hasPerfect5 THEN hasMaj7
            ELSE FALSE
        pitchClass8 == JsRem(rootPitchClass + 8, 12)
        interval8Actual == getActualIntervalForPitchClass(actualIntervals, pitchClass8, rootPitchClass)
        sharp5 ==
            IF interval8Actual >= 19 THEN FALSE
            ELSE IF hasPerfect5 THEN FALSE
            ELSE IF ~hasPerfect5 /\ ~has7th THEN TRUE
            ELSE FALSE
    IN  [interval3IsSharp9 |-> sharp9, interval6IsSharp11 |-> sharp11, interval8IsSharp5 |-> sharp5]

\* ---------------------------------------------------------------------------
\* Chord patterns
\* ---------------------------------------------------------------------------

COMMON_EXTENSIONS == {2, 5, 9}

calculateExtraNotesPenalty(extraIntervals, patternIntervals) ==
    LET patternHas7th == \E k \in DOMAIN patternIntervals :
                            patternIntervals[k] = 10 \/ patternIntervals[k] = 11
        cost(interval) == IF interval \in COMMON_EXTENSIONS
                          THEN (IF patternHas7th THEN 3 ELSE 6)
                          ELSE 18
        sum[k \in 0..Len(extraIntervals)] ==
            IF k = 0 THEN 0 ELSE sum[k - 1] + cost(extraIntervals[k])
    IN  sum[Len(extraIntervals)]

\* variant: the patterns named with "#5" get a priority above the "b13" patterns
Pattern_m1(name, intervals, priority, allowOmit5th) ==
    [name |-> name, intervals |-> intervals,
     priority |-> IF StrIncludes(name, "#5") THEN priority + 20 ELSE priority,
     allowOmit5th |-> allowOmit5th]

\* a ChordPattern object; an absent allowOmit5th (undefined) is falsy
Pattern(name, intervals, priority, allowOmit5th) ==
    [name |-> name, intervals |-> intervals, priority |-> priority, allowOmit5th |-> allowOmit5th]

\* the module-level array literal CHORD_PATTERNS, as built when the module loads
PatternCatalog ==
    <<
        Pattern("Maj13", normalizeIntervals(<<0, 4, 7, 11, 14, 21>>), 65, TRUE),
        Pattern("13", normalizeIntervals(<<0, 4, 7, 10, 14, 21>>), 65, TRUE),
        Pattern("min13", normalizeIntervals(<<0, 3, 7, 10, 14, 21>>), 65, TRUE),
        Pattern("13sus4", normalizeIntervals(<<0, 5, 7, 10, 14, 21>>), 64, TRUE),
        Pattern("Maj9#11", normalizeIntervals(<<0, 4, 7, 11, 14, 18>>), 62, TRUE),
        Pattern("9#11", normalizeIntervals(<<0, 4, 7, 10, 14, 18>>), 62, TRUE),
        Pattern("Maj11", normalizeIntervals(<<0, 4, 7, 11, 14, 17>>), 60, TRUE),
        Pattern("11", normalizeIntervals(<<0, 4, 7, 10, 14, 17>>), 60, TRUE),
        Pattern("min11", normalizeIntervals(<<0, 3, 7, 10, 14, 17>>), 60, TRUE),
        Pattern("Maj9", normalizeIntervals(<<0, 4, 7, 11, 14>>), 55, TRUE),
        Pattern("9", normalizeIntervals(<<0, 4, 7, 10, 14>>), 55, TRUE),
        Pattern("min9", normalizeIntervals(<<0, 3, 7, 10, 14>>), 55, TRUE),
        Pattern("minMaj9", normalizeIntervals(<<0, 3, 7, 11, 14>>), 55, TRUE),
        Pattern("9sus4", normalizeIntervals(<<0, 5, 7, 10, 14>>), 54, TRUE),
        Pattern("13b9", normalizeIntervals(<<0, 4, 7, 10, 13, 21>>), 66, TRUE),
        Pattern("13#9", normalizeIntervals(<<0, 4, 7, 10, 15, 21>>), 66, TRUE),
        Pattern("7b9#11", normalizeIntervals(<<0, 4, 7, 10, 13, 18>>), 58, TRUE),
        Pattern("7#9#11", normalizeIntervals(<<0, 4, 7, 10, 15, 18>>), 58, TRUE),
        Pattern("7b9b13", normalizeIntervals(<<0, 4, 7, 10, 13, 20>>), 58, FALSE),
        Pattern("7#9b13", normalizeIntervals(<<0, 4, 7, 10, 15, 20>>), 58, FALSE),
        Pattern("7alt", normalizeIntervals(<<0, 4, 6, 10, 13, 15>>), 59, FALSE),
        Pattern("Maj7#9", normalizeIntervals(<<0, 4, 7, 11, 15>>), 56, TRUE),
        Pattern("7#9", normalizeIntervals(<<0, 4, 7, 10, 15>>), 54, TRUE),
        Pattern("7b9", normalizeIntervals(<<0, 4, 7, 10, 13>>), 54, TRUE),
        Pattern("7#5#9", normalizeIntervals(<<0, 4, 8, 10, 15>>), 56, FALSE),
        Pattern("7#5b9", normalizeIntervals(<<0, 4, 8, 10, 13>>), 56, FALSE),
        Pattern("7b5b9", normalizeIntervals(<<0, 4, 6, 10, 13>>), 56, FALSE),
        Pattern("7b5#9", normalizeIntervals(<<0, 4, 6, 10, 15>>), 56, FALSE),
        Pattern("7b13", normalizeIntervals(<<0, 4, 7, 10, 20>>), 53, FALSE),
        Pattern("m9b5", normalizeIntervals(<<0, 3, 6, 10, 14>>), 56, FALSE),
        Pattern("m11b5", normalizeIntervals(<<0, 3, 6, 10, 14, 17>>), 58, FALSE),
        Pattern("m7b5(11)", normalizeIntervals(<<0, 3, 6, 10, 17>>), 54, FALSE),
        Pattern("Maj7#11", normalizeIntervals(<<0, 4, 7, 11, 18>>), 52, TRUE),
        Pattern("7#11", normalizeIntervals(<<0, 4, 7, 10, 18>>), 52, TRUE),
        Pattern("6/9", normalizeIntervals(<<0, 4, 7, 9, 14>>), 52, TRUE),
        Pattern("min6/9", normalizeIntervals(<<0, 3, 7, 9, 14>>), 52, TRUE),
        Pattern("7sus4", <<0, 5, 7, 10>>, 46, FALSE),
        Pattern("7sus2", <<0, 2, 7, 10>>, 46, FALSE),
        Pattern("Maj7sus4", <<0, 5, 7, 11>>, 46, FALSE),
        Pattern("Maj7sus2", <<0, 2, 7, 11>>, 46, FALSE),
        Pattern("Maj7", <<0, 4, 7, 11>>, 45, TRUE),
        Pattern("min7", <<0, 3, 7, 10>>, 45, TRUE),
        Pattern("7", <<0, 4, 7, 10>>, 45, TRUE),
        Pattern("dim7", <<0, 3, 6, 9>>, 45, FALSE),
        Pattern("m7b5", <<0, 3, 6, 10>>, 45, FALSE),
        Pattern("minMaj7", <<0, 3, 7, 11>>, 45, TRUE),
        Pattern("Maj7#5", <<0, 4, 8, 11>>, 46, FALSE),
        Pattern("7#5", <<0, 4, 8, 10>>, 46, FALSE),
        Pattern("7b5", <<0, 4, 6, 10>>, 46, FALSE),
        Pattern("6", <<0, 4, 7, 9>>, 42, TRUE),
        Pattern("min6", <<0, 3, 7, 9>>, 42, TRUE),
        Pattern("add9", normalizeIntervals(<<0, 4, 7, 14>>), 40, TRUE),
        Pattern("madd9", normalizeIntervals(<<0, 3, 7, 14>>), 40, TRUE),
        Pattern("add11", normalizeIntervals(<<0, 4, 7, 17>>), 40, TRUE),
        Pattern("madd11", normalizeIntervals(<<0, 3, 7, 17>>), 40, TRUE),
        Pattern("add#11", normalizeIntervals(<<0, 4, 7, 18>>), 40, FALSE),
        Pattern("add#9", normalizeIntervals(<<0, 4, 7, 15>>), 41, TRUE),
        Pattern("madd#9", normalizeIntervals(<<0, 3, 7, 15>>), 41, TRUE),
        Pattern("(add b3)", <<0, 3, 4, 7>>, 40, FALSE),
        Pattern("m(add 3)", <<0, 3, 4, 7>>, 39, FALSE),
        Pattern("", <<0, 4, 7>>, 35, FALSE),
        Pattern("m", <<0, 3, 7>>, 35, FALSE),
        Pattern("dim", <<0, 3, 6>>, 35, FALSE),
        Pattern("aug", <<0, 4, 8>>, 35, FALSE),
        Pattern("sus2", <<0, 2, 7>>, 33, FALSE),
        Pattern("sus4", <<0, 5, 7>>, 33, FALSE),
        Pattern("(#11)", <<0, 4, 6>>, 34, FALSE),
        Pattern("(b5)", <<0, 4, 6>>, 33, FALSE),
        Pattern("quartal", normalizeIntervals(<<0, 5, 10>>), 22, FALSE),
        Pattern("quartal4", normalizeIntervals(<<0, 5, 10, 15>>), 23, FALSE),
        Pattern("5", <<0, 7>>, 20, FALSE)
    >>

\* ---------------------------------------------------------------------------
\* Main analysis function
\*
\* Objects are references in JavaScript.  The pattern objects live in a heap
\* (a sequence): cells 1..Len(catalog) are the entries of CHORD_PATTERNS, and
\* an object spread { ...originalPattern, name } allocates a fresh cell.  A
\* Match holds the heap index of its pattern.
\* ---------------------------------------------------------------------------

Match(pattern, root, score, isRootless, isExact) ==
    [pattern |-> pattern, root |-> root, score |-> score,
     isRootless |-> isRootless, isExact |-> isExact]

\* variant: the array is used in the order given
sortedCopy_m1(notes) == [array |-> notes, sorted |-> notes]

\* const sorted = [...activeNotes].sort((a, b) => a - b): the caller's array
\* is copied before it is sorted
sortedCopy(notes) == [array |-> notes, sorted |-> SortAsc(notes)]

\* variant: pitch classes kept in order of first appearance from the bass
uniquePitchClassesOf_m1(sorted) == Dedup([k \in DOMAIN sorted |-> JsRem(sorted[k], 12)])

\* variant: pitch classes kept in order of first appearance from the top note down
uniquePitchClassesOf_m2(sorted) ==
    Dedup([k \in DOMAIN sorted |-> JsRem(sorted[Len(sorted) + 1 - k], 12)])

\* const uniquePitchClasses = Array.from(new Set(sorted.map(n => n % 12))).sort((a, b) => a - b)
uniquePitchClassesOf(sorted) ==
    SortAsc(Dedup([k \in DOMAIN sorted |-> JsRem(sorted[k], 12)]))

\* variant: the remainder is taken without adding 12 first
intervalsFrom_m1(uniquePitchClasses, potentialRoot) ==
    SortAsc([k \in DOMAIN uniquePitchClasses |-> JsRem(uniquePitchClasses[k] - potentialRoot, 12)])

intervalsFrom(uniquePitchClasses, potentialRoot) ==
    SortAsc([k \in DOMAIN uniquePitchClasses |->
                JsRem(uniquePitchClasses[k] - potentialRoot + 12, 12)])

\* variant: no bonus for an exact match
exactScore_m1(pattern) == pattern.priority * 100

\* the score formulas of the five kinds of Match
exactScore(pattern) == pattern.priority * 100 + 1000
supersetScore(pattern, penalty) == pattern.priority * 100 - penalty
omitted5thScore(pattern, penalty) == pattern.priority * 100 - 15 - penalty
rootlessScore(pattern, penalty) == pattern.priority * 80 - 50 - penalty
rootlessOmitted5thScore(pattern, penalty) == pattern.priority * 70 - 80 - penalty

\* one iteration of the inner loop over CHORD_PATTERNS for a played root:
\* the Match it pushes, if any (exact, else superset, else omitted 5th)
rootedMatch(heap, p, potentialRoot, intervals, intervalSet) ==
    LET pattern == heap[p]
        patternSet == Range(pattern.intervals)
        allPatternPresent == \A k \in DOMAIN pattern.intervals : pattern.intervals[k] \in intervalSet
    IN  IF Len(pattern.intervals) = Len(intervals) /\ allPatternPresent
        THEN <<Match(p, potentialRoot, exactScore(pattern), FALSE, TRUE)>>
        ELSE IF allPatternPresent
        THEN LET extraIntervals == Filter(intervals, LAMBDA i : i \notin patternSet)
                 penalty == calculateExtraNotesPenalty(extraIntervals, pattern.intervals)
             IN  <<Match(p, potentialRoot, supersetScore(pattern, penalty), FALSE, FALSE)>>
        ELSE IF pattern.allowOmit5th /\ ArrIncludes(pattern.intervals, 7)
        THEN LET patternWithout5th == Filter(pattern.intervals, LAMBDA i : i # 7)
                 allPresentWithout5th == \A k \in DOMAIN patternWithout5th : patternWithout5th[k] \in intervalSet
             IN  IF allPresentWithout5th /\ 7 \notin intervalSet
                 THEN LET extraIntervals == Filter(intervals, LAMBDA i : i \notin patternSet /\ i # 7)
                          penalty == calculateExtraNotesPenalty(extraIntervals, pattern.intervals)
                      IN  <<Match(p, potentialRoot, omitted5thScore(pattern, penalty), FALSE, FALSE)>>
                 ELSE <<>>
        ELSE <<>>

\* variant: the played pitch classes are tried as roots from the highest down
rootedMatches_m1(heap, nPatterns, uniquePitchClasses) ==
    Flatten([r \in DOMAIN uniquePitchClasses |->
        LET potentialRoot == uniquePitchClasses[Len(uniquePitchClasses) + 1 - r]
            intervals == intervalsFrom(uniquePitchClasses, potentialRoot)
            intervalSet == Range(intervals)
        IN  Flatten([p \in 1..nPatterns |->
                rootedMatch(heap, p, potentialRoot, intervals, intervalSet)])])

\* the first loop: every played pitch class as potential root
rootedMatches(heap, nPatterns, uniquePitchClasses) ==
    Flatten([r \in DOMAIN uniquePitchClasses |->
        LET potentialRoot == uniquePitchClasses[r]
            intervals == intervalsFrom(uniquePitchClasses, potentialRoot)
            intervalSet == Range(intervals)
        IN  Flatten([p \in 1..nPatterns |->
                rootedMatch(heap, p, potentialRoot, intervals, intervalSet)])])

\* variant: triads are rootless candidates too, and one played tone is enough
rootlessMatch_m1(heap, p, potentialRoot, intervals, intervalSet) ==
    LET pattern == heap[p]
    IN  IF Len(pattern.intervals) < 3 THEN <<>>
        ELSE IF ~ArrIncludes(pattern.intervals, 0) THEN <<>>
        ELSE
          LET patternWithoutRoot == Filter(pattern.intervals, LAMBDA i : i # 0)
              allNonRootPresent == \A k \in DOMAIN patternWithoutRoot : patternWithoutRoot[k] \in intervalSet
              full ==
                  IF allNonRootPresent /\ Len(patternWithoutRoot) >= 2
                  THEN LET patternWithoutRootSet == Range(patternWithoutRoot)
                           extraIntervals == Filter(intervals, LAMBDA i : i \notin patternWithoutRootSet)
                           penalty == calculateExtraNotesPenalty(extraIntervals, pattern.intervals)
                       IN  <<Match(p, potentialRoot, rootlessScore(pattern, penalty), TRUE, FALSE)>>
                  ELSE <<>>
              omit5 ==
                  IF pattern.allowOmit5th
                  THEN LET patternWithoutRootAnd5th == Filter(patternWithoutRoot, LAMBDA i : i # 7)
                           allNonRootNo5thPresent ==
                               \A k \in DOMAIN patternWithoutRootAnd5th : patternWithoutRootAnd5th[k] \in intervalSet
                       IN  IF allNonRootNo5thPresent /\ 7 \notin intervalSet /\ Len(patternWithoutRootAnd5th) >= 1
                           THEN LET patternSet == Range(patternWithoutRootAnd5th)
                                    extraIntervals == Filter(intervals, LAMBDA i : i \notin patternSet)
                                    penalty == calculateExtraNotesPenalty(extraIntervals, pattern.intervals)
                                IN  <<Match(p, potentialRoot, rootlessOmitted5thScore(pattern, penalty), TRUE, FALSE)>>
                           ELSE <<>>
                  ELSE <<>>
          IN  full \o omit5

\* one iteration of the inner loop of the rootless detection: zero, one or two
\* Matches (all non-root tones present; non-root tones present with the 5th omitted)
rootlessMatch(heap, p, potentialRoot, intervals, intervalSet) ==
    LET pattern == heap[p]
    IN  IF Len(pattern.intervals) < 4 THEN <<>>
        ELSE IF ~ArrIncludes(pattern.intervals, 0) THEN <<>>
        ELSE
          LET patternWithoutRoot == Filter(pattern.intervals, LAMBDA i : i # 0)
              allNonRootPresent == \A k \in DOMAIN patternWithoutRoot : patternWithoutRoot[k] \in intervalSet
              full ==
                  IF allNonRootPresent /\ Len(patternWithoutRoot) >= 3
                  THEN LET patternWithoutRootSet == Range(patternWithoutRoot)
                           extraIntervals == Filter(intervals, LAMBDA i : i \notin patternWithoutRootSet)
                           penalty == calculateExtraNotesPenalty(extraIntervals, pattern.intervals)
                       IN  <<Match(p, potentialRoot, rootlessScore(pattern, penalty), TRUE, FALSE)>>
                  ELSE <<>>
              omit5 ==
                  IF pattern.allowOmit5th
                  THEN LET patternWithoutRootAnd5th == Filter(patternWithoutRoot, LAMBDA i : i # 7)
                           allNonRootNo5thPresent ==
                               \A k \in DOMAIN patternWithoutRootAnd5th : patternWithoutRootAnd5th[k] \in intervalSet
                       IN  IF allNonRootNo5thPresent /\ 7 \notin intervalSet /\ Len(patternWithoutRootAnd5th) >= 2
                           THEN LET patternSet == Range(patternWithoutRootAnd5th)
                                    extraIntervals == Filter(intervals, LAMBDA i : i \notin patternSet)
                                    penalty == calculateExtraNotesPenalty(extraIntervals, pattern.intervals)
                                IN  <<Match(p, potentialRoot, rootlessOmitted5thScore(pattern, penalty), TRUE, FALSE)>>
                           ELSE <<>>
                  ELSE <<>>
          IN  full \o omit5

\* variant: no rootless candidates
rootlessMatches_m1(heap, nPatterns, uniquePitchClasses) == <<>>

\* the second loop: every pitch class 0..11 that is not played as implied root
rootlessMatches(heap, nPatterns, uniquePitchClasses) ==
    Flatten([r \in 1..12 |->
        LET potentialRoot == r - 1
        IN  IF ArrIncludes(uniquePitchClasses, potentialRoot) THEN <<>>
            ELSE LET intervals == intervalsFrom(uniquePitchClasses, potentialRoot)
                     intervalSet == Range(intervals)
                 IN  Flatten([p \in 1..nPatterns |->
                         rootlessMatch(heap, p, potentialRoot, intervals, intervalSet)])])

\* the Match list when both loops are done, in push order
generateMatches(heap, nPatterns, uniquePitchClasses) ==
    rootedMatches(heap, nPatterns, uniquePitchClasses)
        \o rootlessMatches(heap, nPatterns, uniquePitchClasses)

\* matches.sort((a, b) => b.score - a.score): by score, descending, stable
RECURSIVE sortMatches(_)
sortMatches(ms) ==
    IF Len(ms) = 0 THEN <<>>
    ELSE LET top == Max({ms[k].score : k \in DOMAIN ms})
         IN  SelectSeq(ms, LAMBDA m : m.score = top)
                \o sortMatches(SelectSeq(ms, LAMBDA m : m.score # top))

nameOf(heap, m) == heap[m.pattern].name

\* variant: the name is written into the catalog object itself
withRenamedPattern_m1(r, newName) ==
    [best |-> r.best, heap |-> [r.heap EXCEPT ![r.best.pattern].name = newName]]

\* best = { ...best, pattern: { ...originalPattern, name: newName } }:
\* a fresh pattern object carries the new name; originalPattern is left as it is
withRenamedPattern(r, newName) ==
    [best |-> [r.best EXCEPT !.pattern = Len(r.heap) + 1],
     heap |-> Append(r.heap, [r.heap[r.best.pattern] EXCEPT !.name = newName])]

\* variant: the alternate is taken over as a rootless Match
switchTo_m1(r, m) == [best |-> [m EXCEPT !.isRootless = TRUE], heap |-> r.heap]

\* best = <a Match found in matches>
switchTo(r, m) == [best |-> m, heap |-> r.heap]

\* the "#9 vs b3 disambiguation" block; r is [best, heap], ms the sorted matches
refineSharp9(r, ms, tensionInfo, hasMin3, hasMaj3) ==
    LET name == nameOf(r.heap, r.best)
    IN  IF ~(hasMin3 /\ hasMaj3) THEN r
        ELSE IF tensionInfo.interval3IsSharp9
        THEN LET sharp9Match == Filter(ms, LAMBDA m :
                     /\ StrIncludes(nameOf(r.heap, m), "#9")
                     /\ m.root = r.best.root
                     /\ m.score > r.best.score - 150)
             IN  IF Len(sharp9Match) > 0 /\ ~StrIncludes(name, "#9")
                 THEN switchTo(r, sharp9Match[1])
                 ELSE IF ~StrIncludes(name, "#9") /\ ~StrIncludes(name, "m")
                 THEN IF name = "" \/ StartsWith(name, "add") \/ StartsWith(name, "Maj") \/ name = "7"
                      THEN LET newName == IF name = "" THEN "add#9"
                                          ELSE IF ~StrIncludes(name, "#9") THEN name \o "(#9)"
                                          ELSE name
                           IN  withRenamedPattern(r, newName)
                      ELSE r
                 ELSE r
        ELSE IF StrIncludes(name, "#9")
        THEN IF ~StrIncludes(name, "7")
             THEN LET clusterMatch == Filter(ms, LAMBDA m :
                          /\ (nameOf(r.heap, m) = "(add b3)" \/ nameOf(r.heap, m) = "m(add 3)")
                          /\ m.root = r.best.root)
                  IN  IF Len(clusterMatch) > 0
                      THEN switchTo(r, clusterMatch[1])
                      ELSE LET replaced == StrReplace(StrReplace(StrReplace(name, "#9", "b3"),
                                                                 "add", "(add "), "madd", "m(add ")
                               newName == IF StrIncludes(replaced, "(add ") /\ ~EndsWith(replaced, ")")
                                          THEN replaced \o ")" ELSE replaced
                           IN  withRenamedPattern(r, newName)
             ELSE withRenamedPattern(r, StrReplace(name, "#9", "(add b3)"))
        ELSE r

\* the "#11 vs b5 disambiguation" block
refineSharp11(r, ms, tensionInfo, hasTritone, hasNatural5) ==
    LET name == nameOf(r.heap, r.best)
    IN  IF ~hasTritone THEN r
        ELSE IF tensionInfo.interval6IsSharp11
        THEN LET sharp11Match == Filter(ms, LAMBDA m :
                     /\ StrIncludes(nameOf(r.heap, m), "#11")
                     /\ m.root = r.best.root
                     /\ m.score > r.best.score - 150)
             IN  IF Len(sharp11Match) > 0 /\ ~StrIncludes(name, "#11")
                 THEN switchTo(r, sharp11Match[1])
                 ELSE IF StrIncludes(name, "b5")
                 THEN withRenamedPattern(r, StrReplace(name, "b5", "#11"))
                 ELSE IF name = "(b5)"
                 THEN LET sharp11Fragment == Filter(ms, LAMBDA m :
                              nameOf(r.heap, m) = "(#11)" /\ m.root = r.best.root)
                      IN  IF Len(sharp11Fragment) > 0 THEN switchTo(r, sharp11Fragment[1]) ELSE r
                 ELSE r
        ELSE IF name = "(#11)"
        THEN LET b5Fragment == Filter(ms, LAMBDA m :
                     nameOf(r.heap, m) = "(b5)" /\ m.root = r.best.root)
             IN  IF Len(b5Fragment) > 0 THEN switchTo(r, b5Fragment[1])
                 ELSE withRenamedPattern(r, "(b5)")
        ELSE IF StrIncludes(name, "#11") /\ ~hasNatural5
        THEN LET b5Match == Filter(ms, LAMBDA m :
                     /\ StrIncludes(nameOf(r.heap, m), "b5")
                     /\ m.root = r.best.root
                     /\ m.score > r.best.score - 150)
             IN  IF Len(b5Match) > 0 THEN switchTo(r, b5Match[1])
                 ELSE withRenamedPattern(r, StrReplace(name, "#11", "b5"))
        ELSE r

\* the "#5 vs b13 disambiguation" block
refineSharp5(r, ms, hasPitchClass8, hasNatural5, has7th) ==
    LET name == nameOf(r.heap, r.best)
    IN  IF hasPitchClass8 /\ hasNatural5 /\ has7th
           /\ StrIncludes(name, "#5") /\ ~StrIncludes(name, "aug")
        THEN LET b13Match == Filter(ms, LAMBDA m :
                     /\ StrIncludes(nameOf(r.heap, m), "b13")
                     /\ m.root = r.best.root
                     /\ m.score > r.best.score - 150)
             IN  IF Len(b13Match) > 0 THEN switchTo(r, b13Match[1]) ELSE r
        ELSE r

\* the return value for an empty input
Null == [isNull |-> TRUE]

\* variant: a single note is rejected too
isEmptyInput_m1(notes) == Len(notes) <= 1

\* if (activeNotes.length < 1) return null
isEmptyInput(notes) == Len(notes) < 1

\* variant: rootless chords count as inversions
isInversionOf_m1(best, bassPitchClass) == best.root # bassPitchClass

\* isInversion and the assembly of displayName
isInversionOf(best, bassPitchClass) == best.root # bassPitchClass /\ ~best.isRootless

displayNameOf(rootName, patternName, isRootless, isInversion, bassName) ==
    (rootName \o patternName)
        \o (IF isRootless THEN " (rootless)" ELSE "")
        \o (IF isInversion THEN "/" \o bassName ELSE "")

\* the raw description returned when no Match was pushed
fallbackAnalysis(sorted, uniquePitchClasses, bassPitchClass) ==
    LET bassRootName == getRootSpelling(bassPitchClass, <<uniquePitchClasses>>)
    IN  [root |-> bassRootName,
         quality |-> "",
         bass |-> bassRootName,
         display |-> Join([k \in DOMAIN sorted |->
                         getChordToneSpelling(JsRem(sorted[k], 12), bassPitchClass)], " "),
         intervals |-> SortAsc([k \in DOMAIN uniquePitchClasses |->
                         JsRem(uniquePitchClasses[k] - bassPitchClass + 12, 12)]),
         detectedRootPitchClass |-> bassPitchClass]

\* the chord context flags computed from the played pitch classes and best.root
chordContext(uniquePitchClasses, root) ==
    [hasMaj3 |-> \E k \in DOMAIN uniquePitchClasses : JsRem(uniquePitchClasses[k] - root + 12, 12) = 4,
     hasMin3 |-> \E k \in DOMAIN uniquePitchClasses : JsRem(uniquePitchClasses[k] - root + 12, 12) = 3,
     has7th  |-> \E k \in DOMAIN uniquePitchClasses :
                    JsRem(uniquePitchClasses[k] - root + 12, 12) \in {10, 11},
     hasTritone |-> \E k \in DOMAIN uniquePitchClasses : JsRem(uniquePitchClasses[k] - root + 12, 12) = 6,
     hasNatural5 |-> \E k \in DOMAIN uniquePitchClasses : JsRem(uniquePitchClasses[k] - root + 12, 12) = 7,
     hasPitchClass8 |-> \E k \in DOMAIN uniquePitchClasses : JsRem(uniquePitchClasses[k] - root + 12, 12) = 8]

\* the three disambiguation blocks, in source order, starting from best = matches[0]
refine(best0, catalog, ms, tensionInfo, ctx) ==
    refineSharp5(
        refineSharp11(
            refineSharp9([best |-> best0, heap |-> catalog], ms, tensionInfo, ctx.hasMin3, ctx.hasMaj3),
            ms, tensionInfo, ctx.hasTritone, ctx.hasNatural5),
        ms, ctx.hasPitchClass8, ctx.hasNatural5, ctx.has7th)

\* best and the name of its pattern, between two blocks of the refinement
bestAt(r) == [best |-> r.best, name |-> nameOf(r.heap, r.best)]

\* the values best takes: matches[0], then after the #9, the #11 and the #5 block
refineTrace(best0, catalog, ms, tensionInfo, ctx) ==
    LET r0 == [best |-> best0, heap |-> catalog]
        r1 == refineSharp9(r0, ms, tensionInfo, ctx.hasMin3, ctx.hasMaj3)
        r2 == refineSharp11(r1, ms, tensionInfo, ctx.hasTritone, ctx.hasNatural5)
        r3 == refineSharp5(r2, ms, ctx.hasPitchClass8, ctx.hasNatural5, ctx.has7th)
    IN  <<bestAt(r0), bestAt(r1), bestAt(r2), bestAt(r3)>>

\* the ChordAnalysis assembled from the refined best
assemble(best, pattern, uniquePitchClasses, bassPitchClass, actualIntervals) ==
    [root |-> getRootSpelling(best.root, <<uniquePitchClasses>>),
     quality |-> pattern.name,
     bass |-> getChordToneSpelling(bassPitchClass, best.root),
     display |-> displayNameOf(getRootSpelling(best.root, <<uniquePitchClasses>>),
                               pattern.name, best.isRootless,
                               isInversionOf(best, bassPitchClass),
                               getChordToneSpelling(bassPitchClass, best.root)),
     intervals |-> pattern.intervals,
     detectedRootPitchClass |-> best.root,
     isRootless |-> best.isRootless,
     actualIntervals |-> [k \in DOMAIN actualIntervals |-> actualIntervals[k].actualInterval]]

\* analyzeChord from the refinement on: r is the refined [best, heap]
analyzeChord_return(copy, catalog, pushed, best0, r, trace, uniquePitchClasses, actualIntervals) ==
    [returned |-> assemble(r.best, r.heap[r.best.pattern], uniquePitchClasses,
                           JsRem(copy.sorted[1], 12), actualIntervals),
     matches |-> pushed,
     best |-> <<best0>>,
     trace |-> trace,
     array |-> copy.array,
     catalog |-> SubSeq(r.heap, 1, Len(catalog))]

\* analyzeChord from "let best = matches[0]" on: ms is the sorted Match list
analyzeChord_best(copy, catalog, pushed, ms, uniquePitchClasses, actualIntervals, ctx) ==
    analyzeChord_return(copy, catalog, pushed, ms[1],
        refine(ms[1], catalog, ms,
               disambiguateTensions(actualIntervals, ms[1].root,
                                    ctx.hasMaj3, ctx.hasMin3, ctx.has7th, ctx.hasNatural5),
               ctx),
        refineTrace(ms[1], catalog, ms,
                    disambiguateTensions(actualIntervals, ms[1].root,
                                         ctx.hasMaj3, ctx.hasMin3, ctx.has7th, ctx.hasNatural5),
                    ctx),
        uniquePitchClasses, actualIntervals)

\* analyzeChord from the sort of the Match list on
analyzeChord_sorted(copy, catalog, pushed, ms, uniquePitchClasses) ==
    analyzeChord_best(copy, catalog, pushed, ms, uniquePitchClasses,
                      calculateActualIntervals(copy.sorted, ms[1].root),
                      chordContext(uniquePitchClasses, ms[1].root))

\* analyzeChord once both loops have pushed their Matches
analyzeChord_matched(copy, catalog, pushed, uniquePitchClasses) ==
    IF Len(pushed) = 0
    THEN [returned |-> fallbackAnalysis(copy.sorted, uniquePitchClasses, JsRem(copy.sorted[1], 12)),
          matches |-> pushed, best |-> <<>>, trace |-> <<>>, array |-> copy.array,
          catalog |-> catalog]
    ELSE analyzeChord_sorted(copy, catalog, pushed, sortMatches(pushed), uniquePitchClasses)

\* analyzeChord once the input is copied and sorted
analyzeChord_unique(copy, catalog, uniquePitchClasses) ==
    analyzeChord_matched(copy, catalog,
                         generateMatches(catalog, Len(catalog), uniquePitchClasses),
                         uniquePitchClasses)

\* One call analyzeChord(notes) with the catalog objects `catalog`:
\*   returned - the return value (Null or a ChordAnalysis),
\*   matches  - the Match list in push order (before the sort),
\*   best     - <<the Match taken after the sort, before the refinement>>, if any,
\*   trace    - best and its pattern name before and after each refinement block,
\*   array    - the caller's array when the call returns,
\*   catalog  - the catalog objects when the call returns.
analyzeChord(notes, catalog) ==
    IF isEmptyInput(notes)
    THEN [returned |-> Null, matches |-> <<>>, best |-> <<>>, trace |-> <<>>, array |-> notes,
          catalog |-> catalog]
    ELSE analyzeChord_unique(sortedCopy(notes), catalog,
                             uniquePitchClassesOf(sortedCopy(notes).sorted))

\* ---------------------------------------------------------------------------
\* Callers: the arrays handed to analyzeChord, and the calls
\* ---------------------------------------------------------------------------

LowNote == 48
HighNote == 61
MaxNotes == 4
MaxOctaves == 1

\* strictly ascending arrays of at most len notes of lo..hi (with <<>>)
RECURSIVE Ascending(_, _, _)
Ascending(lo, hi, len) ==
    IF len = 0 THEN {<<>>}
    ELSE {<<>>} \cup UNION {{<<n>> \o rest : rest \in Ascending(n + 1, hi, len - 1)} : n \in lo..hi}

Chords == Ascending(LowNote, HighNote, MaxNotes)

Reverse(arr) == [k \in DOMAIN arr |-> arr[Len(arr) + 1 - k]]

\* the same notes out of order, the first of them a second time
Shuffled(arr) == <<arr[1]>> \o Reverse(arr)

Transposed(arr, semitones) == [k \in DOMAIN arr |-> arr[k] + semitones]

InMidiRange(arr) == \A k \in DOMAIN arr : arr[k] \in 0..127

NotCalled == [called |-> FALSE]

\* the application as it is mounted
AppIdle ==
    /\ noteNames = <<>>
    /\ targetChord = <<>>
    /\ trainingScore = 0
    /\ feedback = "null"
    /\ hasMatchedRef = FALSE
    /\ master = <<>>
    /\ selectedCardIds = <<>>
    /\ selectionAnchor = <<>>
    /\ nextId = 0
    /\ activeNotesRef = <<>>
    /\ isPedalDownRef = FALSE
    /\ noteBufferRef = <<>>
    /\ clusterTimerRef = <<>>
    /\ now = 0
    /\ pedalNotes = {}

InitWith(inputs) ==
    /\ activeNotes \in inputs
    /\ passedNotes = <<>>
    /\ matches = <<>>
    /\ firstBest = <<>>
    /\ bestTrace = <<>>
    /\ result = NotCalled
    /\ prevNotes = <<>>
    /\ prevResult = NotCalled
    /\ CHORD_PATTERNS = PatternCatalog
    /\ calls = 0
    /\ relation = "first"
    /\ helperArgs = <<>>
    /\ helperValue = NotCalled
    /\ AppIdle

\* the caller calls analyzeChord(notes) and keeps what the previous call returned
CallReturns(notes, rel) ==
    \E call \in {analyzeChord(notes, CHORD_PATTERNS)} :
        /\ activeNotes' = call.array
        /\ passedNotes' = notes
        /\ matches' = call.matches
        /\ firstBest' = call.best
        /\ bestTrace' = call.trace
        /\ result' = call.returned
        /\ prevNotes' = activeNotes
        /\ prevResult' = result
        /\ CHORD_PATTERNS' = call.catalog
        /\ calls' = calls + 1
        /\ relation' = rel
        /\ UNCHANGED <<helperArgs, helperValue>>

\* a call made outside the application
CallWith(notes, rel) == CallReturns(notes, rel) /\ UNCHANGED appVars

\* the first call, on the array prepared by the caller
Analyze == calls = 0 /\ CallWith(activeNotes, "first")

\* a second call, on the same array
AnalyzeAgain == calls = 1 /\ CallWith(activeNotes, "again")

\* a second call, on the same notes out of order with one of them doubled
AnalyzeShuffled ==
    /\ calls = 1
    /\ Len(activeNotes) > 0
    /\ CallWith(Shuffled(activeNotes), "shuffled")

\* a second call, on the same notes some whole octaves higher
AnalyzeTransposed ==
    /\ calls = 1
    /\ Len(activeNotes) > 0
    /\ \E j \in 1..MaxOctaves :
          /\ InMidiRange(Transposed(activeNotes, 12 * j))
          /\ CallWith(Transposed(activeNotes, 12 * j), "octaves")

\* a second call, on the same notes with one of them played an octave higher
AnalyzeRevoiced ==
    /\ calls = 1
    /\ \E k \in DOMAIN activeNotes :
          CallWith([activeNotes EXCEPT ![k] = @ + 12], "revoiced")

\* a second call, on the same notes with one of them doubled an octave higher
AnalyzeDoubled ==
    /\ calls = 1
    /\ \E k \in DOMAIN activeNotes :
          CallWith(Append(activeNotes, activeNotes[k] + 12), "doubled")

\* Arbitrary chords of up to MaxNotes notes, analysed, then analysed again as
\* they are, out of order, or some octaves higher.
Init == InitWith(Chords)
Next == Analyze \/ AnalyzeAgain \/ AnalyzeShuffled \/ AnalyzeTransposed
Spec == Init /\ [][Next]_vars

RECURSIVE AscendingOf(_)
\* the notes of a set, lowest first
AscendingOf(S) == IF S = {} THEN <<>> ELSE <<Min(S)>> \o AscendingOf(S \ {Min(S)})

\* Close-position chords: a bass note and any notes out of the semitones above it.
PairLow == 48
PairSpan == 10
MaxPairNotes == 5
CloseChordsOn(low, span, len) ==
    {<<low>> \o AscendingOf(S) : S \in {T \in SUBSET ((low + 1)..(low + span)) : Cardinality(T) < len}}

\* Chords with the same pitch classes in two voicings.
PairInit == InitWith(CloseChordsOn(PairLow, PairSpan, MaxPairNotes))
PairNext == Analyze \/ AnalyzeRevoiced \/ AnalyzeDoubled
SpecPair == PairInit /\ [][PairNext]_vars

\* arr with its first k elements moved to the end
Rotated(arr, k) == SubSeq(arr, k + 1, Len(arr)) \o SubSeq(arr, 1, k)

\* a second call, on the same notes in another order
AnalyzeReordered ==
    /\ calls = 1
    /\ \E k \in DOMAIN activeNotes :
          CallWith(Reverse(Rotated(activeNotes, k)), "reordered")

\* a second call, on the same notes with one MIDI number given twice
AnalyzeDuplicated ==
    /\ calls = 1
    /\ \E k \in DOMAIN activeNotes :
          CallWith(Append(activeNotes, activeNotes[k]), "duplicated")

\* The same chord given in another order, or with a note repeated.
OrderInit == InitWith(CloseChordsOn(PairLow, PairSpan, MaxPairNotes))
OrderNext == Analyze \/ AnalyzeReordered \/ AnalyzeDuplicated
SpecOrder == OrderInit /\ [][OrderNext]_vars

\* a second call, on the same notes with the bass doubled an octave higher
AnalyzeBassDoubled ==
    /\ calls = 1
    /\ Len(activeNotes) > 0
    /\ CallWith(Append(activeNotes, activeNotes[1] + 12), "doubled")

\* Every cluster of pitch classes over a bass note.
ClusterLow == 60
ClusterSpan == 10
ClusterInit == InitWith(CloseChordsOn(ClusterLow, ClusterSpan, ClusterSpan + 1))
ClusterNext == Analyze \/ AnalyzeBassDoubled
SpecCluster == ClusterInit /\ [][ClusterNext]_vars

\* Voicings of a dominant 7th chord with an added minor third: each chord tone
\* in one octave, the added note in one or more octaves.
Dom7Low == 36
MaxDom7Octave == 1
Dom7Tones == <<0, 4, 7, 10>>
Dom7Chords ==
    {AscendingOf({root + Dom7Tones[k] + 12 * oct[k] : k \in 1..4}
                 \cup {root + 3 + 12 * a : a \in added}) :
        root \in Dom7Low..(Dom7Low + 11),
        oct \in [1..4 -> 0..MaxDom7Octave],
        added \in (SUBSET (0..(MaxDom7Octave + 1))) \ {{}}}
Dom7Init == InitWith(Dom7Chords)
Dom7Next == Analyze
SpecDom7 == Dom7Init /\ [][Dom7Next]_vars

\* Voicings of a minor triad: each chord tone in one or more octaves.
MinorLow == 36
MaxMinorOctave == 1
MinorTones == <<0, 3, 7>>
MinorChords ==
    {AscendingOf(UNION {{root + MinorTones[k] + 12 * o : o \in oct[k]} : k \in 1..3}) :
        root \in MinorLow..(MinorLow + 11),
        oct \in [1..3 -> (SUBSET (0..MaxMinorOctave)) \ {{}}]}
MinorInit == InitWith(MinorChords)
MinorNext == Analyze
SpecMinor == MinorInit /\ [][MinorNext]_vars

\* Root-position close voicings of catalog chords on every root.
CloseLow == 48
MaxCloseOctave == 1
CloseTypes == {"", "dim", "Maj7", "7", "min7", "m7b5", "minMaj7", "Maj7#5", "7#5", "7sus4"}
patternNamed(name) == CHOOSE p \in Range(PatternCatalog) : p.name = name
CloseVoicing(rootNote, name) ==
    [k \in DOMAIN patternNamed(name).intervals |-> rootNote + patternNamed(name).intervals[k]]
CloseVoicings ==
    {CloseVoicing(CloseLow + r + 12 * o, t) : r \in 0..11, o \in 0..MaxCloseOctave, t \in CloseTypes}
CloseInit == InitWith(CloseVoicings)
CloseNext == Analyze
SpecClose == CloseInit /\ [][CloseNext]_vars

\* Voicings of a chord with root, perfect 5th, a 7th and the tone 8 semitones above the
\* root, and up to MaxAlteredExtras further tones; the 8 and the further tones each in any
\* octave up to MaxAlteredOctave.
AlteredLow == 48
MaxAlteredExtras == 2
MaxAlteredOctave == 1
AlteredChords ==
    UNION {{AscendingOf({AlteredLow, AlteredLow + 7, AlteredLow + seventh, AlteredLow + 8 + 12 * oct8}
                        \cup {AlteredLow + e + 12 * octs[e] : e \in extras}) :
                seventh \in {10, 11},
                oct8 \in 0..MaxAlteredOctave,
                octs \in [extras -> 0..MaxAlteredOctave]} :
           extras \in {E \in SUBSET {1, 2, 3, 4, 5, 6, 9} : Cardinality(E) <= MaxAlteredExtras}}
AlteredInit == InitWith(AlteredChords)
AlteredNext == Analyze
SpecAltered == AlteredInit /\ [][AlteredNext]_vars

\* a second call, on the same notes some semitones higher
ShiftLow == 48
ShiftSpan == 9
MaxShiftNotes == 4
MaxShift == 11
AnalyzeShifted ==
    /\ calls = 1
    /\ \E k \in 1..MaxShift :
          /\ InMidiRange(Transposed(activeNotes, k))
          /\ CallWith(Transposed(activeNotes, k), "shifted")

\* Close chords on one bass note, and the same chords on every other bass note.
ShiftInit == InitWith(CloseChordsOn(ShiftLow, ShiftSpan, MaxShiftNotes))
ShiftNext == Analyze \/ AnalyzeShifted
SpecShift == ShiftInit /\ [][ShiftNext]_vars

\* the name the chord panel shows for the note at noteIndex of the sorted sounding notes
noteNameAt(sortedActiveNotes, displayChord, noteIndex) ==
    LET notePitchClass == JsRem(sortedActiveNotes[noteIndex], 12)
        rootPitchClass == IF "detectedRootPitchClass" \in DOMAIN displayChord
                          THEN displayChord.detectedRootPitchClass
                          ELSE JsRem(sortedActiveNotes[1], 12)
        patternName == IF "quality" \in DOMAIN displayChord THEN displayChord.quality ELSE ""
        actualInterval == IF "actualIntervals" \in DOMAIN displayChord
                             /\ noteIndex \in DOMAIN displayChord.actualIntervals
                          THEN <<displayChord.actualIntervals[noteIndex]>>
                          ELSE <<>>
    IN  getChordToneWithTension(notePitchClass, rootPitchClass, patternName, actualInterval)

\* the chord panel is rendered for the sounding notes and their analysis
Render ==
    /\ calls = 1
    /\ noteNames' = [noteIndex \in DOMAIN passedNotes |->
                        noteNameAt(SortAsc(passedNotes), result, noteIndex)]
    /\ UNCHANGED <<activeNotes, passedNotes, matches, firstBest, bestTrace, result, prevNotes,
                   prevResult, CHORD_PATTERNS, calls, relation, helperArgs, helperValue>>
    /\ UNCHANGED <<trainingVars, storeVars, midiVars>>

\* Chords of up to MaxPanelNotes notes on one lowest note, spread over PanelSpan semitones.
PanelLow == 48
PanelSpan == 20
MaxPanelNotes == 4
PanelInit == InitWith(CloseChordsOn(PanelLow, PanelSpan, MaxPanelNotes))
PanelNext == Analyze \/ Render
SpecPanel == PanelInit /\ [][PanelNext]_vars

\* Training mode: the qualities of TRAINING_CHORD_TYPES and the root names of generateTarget
TRAINING_CHORD_TYPES == <<"", "m", "Maj7", "min7", "7", "dim", "sus2", "sus4">>
TargetRoots == <<"C", "C#", "D", "Eb", "E", "F", "F#", "G", "Ab", "A", "Bb", "B">>

rootToPitchClass(root) ==
    CASE root = "C" -> 0 [] root = "C#" -> 1 [] root = "Db" -> 1 [] root = "D" -> 2
      [] root = "D#" -> 3 [] root = "Eb" -> 3 [] root = "E" -> 4 [] root = "Fb" -> 4
      [] root = "E#" -> 5 [] root = "F" -> 5 [] root = "F#" -> 6 [] root = "Gb" -> 6
      [] root = "G" -> 7 [] root = "G#" -> 8 [] root = "Ab" -> 8 [] root = "A" -> 9
      [] root = "A#" -> 10 [] root = "Bb" -> 10 [] root = "B" -> 11 [] root = "Cb" -> 11
      [] root = "B#" -> 0 [] OTHER -> 0 - 1

\* the comparison of the match effect, made when there is a target and a current chord
isMatch(target, currentChord) ==
    /\ Len(target) > 0
    /\ "root" \in DOMAIN currentChord
    /\ rootToPitchClass(target[1].root) = rootToPitchClass(currentChord.root)
    /\ currentChord.quality = target[1].quality

\* the match effect for the target and current chord given, hasMatchedRef being matched
matchEffect(target, currentChord, matched) ==
    IF ~matched /\ isMatch(target, currentChord)
    THEN /\ hasMatchedRef' = TRUE
         /\ feedback' = "correct"
         /\ trainingScore' = trainingScore + 1
    ELSE /\ hasMatchedRef' = matched
         /\ UNCHANGED <<feedback, trainingScore>>

MaxScore == 1
MaxHolds == 2
TrainingLow == 48
MaxTrainingOctave == 1

\* generateTarget(), on entering training mode or a second after a match; the match
\* effect runs again for the new target
GenerateTarget ==
    /\ targetChord = <<>> \/ hasMatchedRef
    /\ trainingScore < MaxScore
    /\ \E r \in DOMAIN TargetRoots, t \in DOMAIN TRAINING_CHORD_TYPES :
          /\ targetChord' = <<[root |-> TargetRoots[r], quality |-> TRAINING_CHORD_TYPES[t]]>>
          /\ IF isMatch(targetChord', result)
             THEN hasMatchedRef' = TRUE /\ feedback' = "correct" /\ trainingScore' = trainingScore + 1
             ELSE hasMatchedRef' = FALSE /\ feedback' = "null" /\ trainingScore' = trainingScore
    /\ relation' = "target"
    /\ UNCHANGED <<activeNotes, passedNotes, matches, firstBest, bestTrace, result, prevNotes,
                   prevResult, CHORD_PATTERNS, calls, helperArgs, helperValue, noteNames>>
    /\ UNCHANGED <<storeVars, midiVars>>

\* the tones of the target chord in root-position close voicing, octave octaves up
TargetVoicing(target, octave) ==
    CloseVoicing(TrainingLow + rootToPitchClass(target.root) + 12 * octave, target.quality)

\* the player holds the target chord; currentChord is analysed and the match effect runs
HoldTarget ==
    /\ Len(targetChord) > 0
    /\ ~hasMatchedRef
    /\ calls < MaxHolds
    /\ \E octave \in 0..MaxTrainingOctave :
          CallReturns(TargetVoicing(targetChord[1], octave), "held")
    /\ matchEffect(targetChord, result', hasMatchedRef)
    /\ UNCHANGED <<targetChord, noteNames, storeVars, midiVars>>

TrainingInit == InitWith({<<>>})
TrainingNext == GenerateTarget \/ HoldTarget
SpecTraining == TrainingInit /\ [][TrainingNext]_vars

\* ---------------------------------------------------------------------------
\* The sequence store (useSequenceStore)
\* ---------------------------------------------------------------------------

recordingDuration == "q"

\* Array.prototype.splice: where a start index lands in an array of len elements
SpliceStart(len, start) ==
    IF start < 0 THEN (IF len + start < 0 THEN 0 ELSE len + start)
    ELSE IF start > len THEN len ELSE start

\* arr.splice(index, 0, x)
InsertAt(arr, index, x) ==
    LET s == SpliceStart(Len(arr), index)
    IN  SubSeq(arr, 1, s) \o <<x>> \o SubSeq(arr, s + 1, Len(arr))

\* arr.splice(index, 1): <<what is left, the elements removed>>
RemoveAt(arr, index) ==
    LET s == SpliceStart(Len(arr), index)
    IN  IF s < Len(arr)
        THEN <<SubSeq(arr, 1, s) \o SubSeq(arr, s + 2, Len(arr)), <<arr[s + 1]>>>>
        ELSE <<arr, <<>>>>

\* arr.filter(x => x !== y)
Without(arr, y) == SelectSeq(arr, LAMBDA x : x # y)

\* the ids of cards, in order, and cards.findIndex(c => c.id === id) (from 0, or -1)
IdsOf(cards) == [k \in DOMAIN cards |-> cards[k].id]
FindIndex(cards, id) ==
    IF \E k \in DOMAIN cards : cards[k].id = id
    THEN Min({k \in DOMAIN cards : cards[k].id = id}) - 1
    ELSE 0 - 1

\* createCard and createRestCard with the id generateId() returned; analysis is <<>> or
\* <<a ChordAnalysis>>
createCard(id, notes, analysis) ==
    [id |-> id, notes |-> notes, duration |-> recordingDuration, isRest |-> Len(notes) = 0,
     analysis |-> analysis]
createRestCard(id) ==
    [id |-> id, notes |-> <<>>, duration |-> recordingDuration, isRest |-> TRUE, analysis |-> <<>>]

\* set(...) on the store; the library and the rest of the application are not touched
StoreSet(cards, selected, anchor, issued) ==
    /\ master' = cards
    /\ selectedCardIds' = selected
    /\ selectionAnchor' = anchor
    /\ nextId' = issued
    /\ UNCHANGED <<libVars, noteNames, trainingVars, midiVars>>

addCard(notes, analysis) ==
    StoreSet(Append(master, createCard(nextId + 1, notes, analysis)),
             selectedCardIds, selectionAnchor, nextId + 1)

addRestCard ==
    StoreSet(Append(master, createRestCard(nextId + 1)), selectedCardIds, selectionAnchor, nextId + 1)

insertCard(index, notes, analysis) ==
    StoreSet(InsertAt(master, index, createCard(nextId + 1, notes, analysis)),
             selectedCardIds, selectionAnchor, nextId + 1)

\* variant: the card is removed and the selection is left as it is
removeCard_m1(id) ==
    StoreSet(SelectSeq(master, LAMBDA c : c.id # id), selectedCardIds, selectionAnchor, nextId)

removeCard(id) ==
    StoreSet(SelectSeq(master, LAMBDA c : c.id # id),
             Without(selectedCardIds, id),
             IF selectionAnchor = <<id>> THEN <<>> ELSE selectionAnchor,
             nextId)

\* updates is a record of some of the fields of a card other than its id
updateCard(id, updates) ==
    StoreSet([k \in DOMAIN master |->
                 IF master[k].id = id
                 THEN [f \in DOMAIN master[k] |->
                          IF f \in DOMAIN updates THEN updates[f] ELSE master[k][f]]
                 ELSE master[k]],
             selectedCardIds, selectionAnchor, nextId)

reorderCards(fromIndex, toIndex) ==
    LET taken == RemoveAt(master, fromIndex)
    IN  StoreSet(IF Len(taken[2]) > 0 THEN InsertAt(taken[1], toIndex, taken[2][1]) ELSE taken[1],
                 selectedCardIds, selectionAnchor, nextId)

clearCards == StoreSet(<<>>, <<>>, <<>>, nextId)

selectCard(id, mode) ==
    IF FindIndex(master, id) = 0 - 1 THEN StoreSet(master, selectedCardIds, selectionAnchor, nextId)
    ELSE CASE mode = "replace" -> StoreSet(master, <<id>>, <<id>>, nextId)
           [] mode = "toggle" ->
                IF ArrIncludes(selectedCardIds, id)
                THEN LET newSelection == Without(selectedCardIds, id)
                     IN  StoreSet(master, newSelection,
                                  IF selectionAnchor = <<id>>
                                  THEN (IF Len(newSelection) > 0
                                        THEN <<newSelection[Len(newSelection)]>> ELSE <<>>)
                                  ELSE selectionAnchor,
                                  nextId)
                ELSE StoreSet(master, Append(selectedCardIds, id), <<id>>, nextId)
           [] mode = "range" ->
                IF selectionAnchor = <<>> THEN StoreSet(master, <<id>>, <<id>>, nextId)
                ELSE LET anchorIndex == FindIndex(master, selectionAnchor[1])
                         targetIndex == FindIndex(master, id)
                         startIdx == IF anchorIndex < targetIndex THEN anchorIndex ELSE targetIndex
                         endIdx == IF anchorIndex < targetIndex THEN targetIndex ELSE anchorIndex
                     IN  IF anchorIndex = 0 - 1 \/ targetIndex = 0 - 1
                         THEN StoreSet(master, <<id>>, <<id>>, nextId)
                         ELSE StoreSet(master, IdsOf(SubSeq(master, startIdx + 1, endIdx + 1)),
                                       selectionAnchor, nextId)
           [] OTHER -> StoreSet(master, selectedCardIds, selectionAnchor, nextId)

selectCards(ids) ==
    LET validIds == SelectSeq(ids, LAMBDA id : FindIndex(master, id) # 0 - 1)
    IN  StoreSet(master, validIds,
                 IF Len(validIds) > 0 THEN <<validIds[Len(validIds)]>> ELSE <<>>, nextId)

clearSelection == StoreSet(master, <<>>, <<>>, nextId)

selectAll ==
    StoreSet(master, IdsOf(master), IF Len(master) > 0 THEN <<master[1].id>> ELSE <<>>, nextId)

deleteSelectedCards ==
    IF Len(selectedCardIds) = 0 THEN StoreSet(master, selectedCardIds, selectionAnchor, nextId)
    ELSE StoreSet(SelectSeq(master, LAMBDA c : ~ArrIncludes(selectedCardIds, c.id)),
                  <<>>, <<>>, nextId)

\* cards are the cards of the master track of the sequence loaded
loadSequence(cards) == StoreSet(cards, <<>>, <<>>, nextId)

resetSequence == StoreSet(<<>>, <<>>, <<>>, nextId)

\* Up to MaxIssued cards are created; a loaded sequence has no card or one card, whose id
\* comes from elsewhere (LoadedId, above every id issued here).
MaxIssued == 1
LoadedId == 100
StoreNotes == {<<60, 64, 67>>}
\* ids a caller may name: those issued here and the loaded one
NamedIds == (1..MaxIssued) \cup {LoadedId}
StoreIndices == (0 - 1)..(Len(master) + 1)
LoadedTracks == {<<>>, <<createCard(LoadedId, <<60, 64, 67>>, <<>>)>>}
MaxSelected == 2
IdLists == UNION {[1..n -> NamedIds] : n \in 0..MaxSelected}

StoreInit == InitWith({<<>>})
StoreNext ==
    \/ nextId < MaxIssued /\ \E notes \in StoreNotes : addCard(notes, <<>>)
    \/ nextId < MaxIssued /\ addRestCard
    \/ nextId < MaxIssued /\ \E index \in StoreIndices, notes \in StoreNotes : insertCard(index, notes, <<>>)
    \/ \E id \in NamedIds : removeCard(id)
    \/ \E id \in NamedIds : updateCard(id, [duration |-> "h"])
    \/ \E fromIndex \in StoreIndices, toIndex \in StoreIndices : reorderCards(fromIndex, toIndex)
    \/ clearCards
    \/ \E id \in NamedIds, mode \in {"replace", "toggle", "range"} : selectCard(id, mode)
    \/ \E ids \in IdLists : selectCards(ids)
    \/ clearSelection
    \/ selectAll
    \/ deleteSelectedCards
    \/ \E cards \in LoadedTracks : loadSequence(cards)
    \/ resetSequence
SpecStore == StoreInit /\ [][StoreNext]_vars

\* ---------------------------------------------------------------------------
\* The MIDI engine of the application (onMidiMessage, the pedal buffer, the idle flush)
\* ---------------------------------------------------------------------------

PEDAL_CLUSTER_GAP_MS == 220
CHORD_IOI_THRESHOLD_MS == 110

\* [...events].sort((a, b) => a.time - b.time): a stable sort by time
RECURSIVE SortByTime(_)
SortByTime(events) ==
    IF Len(events) <= 1 THEN events
    ELSE LET earliest == Min({events[k].time : k \in DOMAIN events})
             k == Min({i \in DOMAIN events : events[i].time = earliest})
         IN  <<events[k]>> \o SortByTime(SubSeq(events, 1, k - 1) \o SubSeq(events, k + 1, Len(events)))

\* the clusters of sortedEvents from event i on, currentCluster being the one under way
RECURSIVE ClustersFrom(_, _, _)
ClustersFrom(sortedEvents, i, currentCluster) ==
    IF i > Len(sortedEvents) THEN <<currentCluster>>
    ELSE IF sortedEvents[i].time - sortedEvents[i - 1].time > PEDAL_CLUSTER_GAP_MS
         THEN <<currentCluster>> \o ClustersFrom(sortedEvents, i + 1, <<sortedEvents[i]>>)
         ELSE ClustersFrom(sortedEvents, i + 1, Append(currentCluster, sortedEvents[i]))

RECURSIVE TotalIOI(_, _)
TotalIOI(clusterEvents, i) ==
    IF i > Len(clusterEvents) THEN 0
    ELSE clusterEvents[i].time - clusterEvents[i - 1].time + TotalIOI(clusterEvents, i + 1)

\* avgIOI < CHORD_IOI_THRESHOLD_MS || timeSpan < PEDAL_CLUSTER_GAP_MS * 0.6, in integers
isChordCluster(clusterEvents) ==
    LET length == Len(clusterEvents)
        timeSpan == clusterEvents[length].time - clusterEvents[1].time
    IN  \/ IF length > 1
           THEN TotalIOI(clusterEvents, 2) < CHORD_IOI_THRESHOLD_MS * (length - 1)
           ELSE 0 < CHORD_IOI_THRESHOLD_MS
        \/ timeSpan * 10 < PEDAL_CLUSTER_GAP_MS * 6

\* The keys of the keyboard that are played, and analyzeChord(uniqueNotes) for each set of
\* them (the catalog is as it was loaded: analyzeChord leaves it alone).
MidiNotes == {60, 64}
MidiAnalyses ==
    [uniqueNotes \in {AscendingOf(S) : S \in SUBSET MidiNotes} |->
        analyzeChord(uniqueNotes, PatternCatalog).returned]

\* the PhraseSegment built for a cluster
segmentOf(clusterEvents) ==
    LET uniqueNotes == SortAsc(Dedup([k \in DOMAIN clusterEvents |-> clusterEvents[k].note]))
    IN  IF isChordCluster(clusterEvents)
        THEN [type |-> "chord", notes |-> uniqueNotes,
              analysis |-> <<MidiAnalyses[uniqueNotes]>>]
        ELSE [type |-> "scale", notes |-> uniqueNotes, analysis |-> <<>>]

\* addSegmentToHistory: store is <<the cards, the ids issued>>, and so is the value
addSegmentToHistory(store, segment) ==
    IF segment.type = "chord"
    THEN <<Append(store[1], createCard(store[2] + 1, segment.notes, segment.analysis)), store[2] + 1>>
    ELSE store

\* clusters.forEach(...): <<the cards, the ids issued>> after the clusters from i on
RECURSIVE addSegments(_, _, _)
addSegments(store, clusters, i) ==
    IF i > Len(clusters) THEN store
    ELSE addSegments(addSegmentToHistory(store, segmentOf(clusters[i])), clusters, i + 1)

\* buildSegmentsFromEvents(events), events not empty
buildSegmentsFromEvents(events) ==
    \E sortedEvents \in {SortByTime(events)} :
        \E built \in {addSegments(<<master, nextId>>,
                                  ClustersFrom(sortedEvents, 2, <<sortedEvents[1]>>), 1)} :
            /\ master' = built[1]
            /\ nextId' = built[2]

\* flushBuffer(), but for the timer
flushBuffer ==
    IF Len(noteBufferRef) = 0 THEN UNCHANGED <<noteBufferRef, master, nextId>>
    ELSE /\ noteBufferRef' = <<>>
         /\ buildSegmentsFromEvents(noteBufferRef)

\* what scheduleIdleFlush() leaves in clusterTimerRef for the pedal and buffer given
scheduleIdleFlush(pedalDown, buffer, timer) ==
    IF ~pedalDown \/ Len(buffer) = 0 THEN timer ELSE <<now + PEDAL_CLUSTER_GAP_MS>>

\* Steps of the clock, and the limits of a run.
ChordStep == 50
ScaleStep == 150
MaxTime == 450
MaxBuffer == 2
MaxMidiCards == 2

MidiUnchanged == UNCHANGED <<libVars, noteNames, trainingVars, selectedCardIds, selectionAnchor>>

\* a note-on message
NoteOn ==
    /\ Len(noteBufferRef) < MaxBuffer
    /\ nextId < MaxMidiCards
    /\ \E note \in MidiNotes :
          /\ activeNotesRef' = IF ArrIncludes(activeNotesRef, note) THEN activeNotesRef
                               ELSE Append(activeNotesRef, note)
          /\ IF isPedalDownRef
             THEN /\ noteBufferRef' = Append(noteBufferRef, [note |-> note, time |-> now])
                  /\ clusterTimerRef' = scheduleIdleFlush(isPedalDownRef, noteBufferRef', clusterTimerRef)
                  /\ pedalNotes' = pedalNotes \cup {note}
             ELSE UNCHANGED <<noteBufferRef, clusterTimerRef, pedalNotes>>
    /\ UNCHANGED <<isPedalDownRef, now, master, nextId>>
    /\ MidiUnchanged

\* a note-off message (or a note-on with velocity 0)
NoteOff ==
    /\ \E note \in MidiNotes : activeNotesRef' = Without(activeNotesRef, note)
    /\ UNCHANGED <<isPedalDownRef, noteBufferRef, clusterTimerRef, now, pedalNotes, master, nextId>>
    /\ MidiUnchanged

\* controller 64 with a value of 64 or more
PedalDown ==
    /\ nextId < MaxMidiCards
    /\ noteBufferRef' = [k \in DOMAIN activeNotesRef |-> [note |-> activeNotesRef[k], time |-> now]]
    /\ isPedalDownRef' = TRUE
    /\ clusterTimerRef' = scheduleIdleFlush(TRUE, noteBufferRef', <<>>)
    /\ pedalNotes' = pedalNotes \cup Range(activeNotesRef)
    /\ UNCHANGED <<activeNotesRef, now, master, nextId>>
    /\ MidiUnchanged

\* controller 64 with a value below 64
PedalUp ==
    /\ isPedalDownRef' = FALSE
    /\ clusterTimerRef' = <<>>
    /\ flushBuffer
    /\ UNCHANGED <<activeNotesRef, now, pedalNotes>>
    /\ MidiUnchanged

\* the idle flush timer expires, at its time or later
TimerExpires ==
    /\ Len(clusterTimerRef) > 0
    /\ now >= clusterTimerRef[1]
    /\ clusterTimerRef' = IF Len(noteBufferRef) = 0 THEN clusterTimerRef ELSE <<>>
    /\ flushBuffer
    /\ UNCHANGED <<activeNotesRef, isPedalDownRef, now, pedalNotes>>
    /\ MidiUnchanged

\* time passes
Tick ==
    /\ \E step \in {ChordStep, ScaleStep} :
          /\ now + step <= MaxTime
          /\ now' = now + step
    /\ UNCHANGED <<activeNotesRef, isPedalDownRef, noteBufferRef, clusterTimerRef, pedalNotes,
                   master, nextId>>
    /\ MidiUnchanged

MidiInit == InitWith({<<>>})
MidiNext == NoteOn \/ NoteOff \/ PedalDown \/ PedalUp \/ TimerExpires \/ Tick
SpecMidi == MidiInit /\ [][MidiNext]_vars

\* ---------------------------------------------------------------------------
\* Callers of the exported helper functions
\* ---------------------------------------------------------------------------

\* no call of analyzeChord is made: only a helper function is called
HelperInitWith(inputs) ==
    /\ helperArgs \in inputs
    /\ helperValue = NotCalled
    /\ activeNotes = <<>>
    /\ passedNotes = <<>>
    /\ matches = <<>>
    /\ firstBest = <<>>
    /\ bestTrace = <<>>
    /\ result = NotCalled
    /\ prevNotes = <<>>
    /\ prevResult = NotCalled
    /\ CHORD_PATTERNS = PatternCatalog
    /\ calls = 0
    /\ relation = "first"
    /\ AppIdle

\* the helper call number calls + 1 returns value for the arguments given
HelperReturns(given, value, rel) ==
    /\ helperArgs' = given
    /\ helperValue' = value
    /\ calls' = calls + 1
    /\ relation' = rel
    /\ UNCHANGED <<activeNotes, passedNotes, matches, firstBest, bestTrace, result, prevNotes, prevResult,
                   CHORD_PATTERNS>>
    /\ UNCHANGED appVars

\* Lists of up to MaxIntervals integers, negative and compound ones included.
IntervalReach == 13
MaxIntervals == 2
RECURSIVE ListsOf(_, _)
ListsOf(S, len) ==
    IF len = 0 THEN {<<>>}
    ELSE {<<>>} \cup {<<x>> \o rest : x \in S, rest \in ListsOf(S, len - 1)}
IntervalLists == ListsOf((0 - IntervalReach)..(11 + IntervalReach), MaxIntervals)

\* normalizeIntervals(intervals)
Normalize ==
    /\ calls = 0
    /\ HelperReturns(helperArgs, normalizeIntervals(helperArgs), "first")

\* normalizeIntervals(normalizeIntervals(intervals))
NormalizeAgain ==
    /\ calls = 1
    /\ HelperReturns(helperValue, normalizeIntervals(helperValue), "again")

NormalizeInit == HelperInitWith(IntervalLists)
NormalizeNext == Normalize \/ NormalizeAgain
SpecNormalize == NormalizeInit /\ [][NormalizeNext]_vars

\* Roots with no context, or with a context of up to MaxContext pitch classes.
MaxContext == 3
Contexts == {<<>>} \cup {<<AscendingOf(S)>> : S \in {T \in SUBSET (0..11) : Cardinality(T) <= MaxContext}}

\* getRootSpelling(rootPitchClass) or getRootSpelling(rootPitchClass, bassContext)
SpellRoot ==
    /\ calls = 0
    /\ HelperReturns(helperArgs, getRootSpelling(helperArgs[1], helperArgs[2]), "first")

RootSpellingInit == HelperInitWith((0..11) \X Contexts)
RootSpellingNext == SpellRoot
SpecRootSpelling == RootSpellingInit /\ [][RootSpellingNext]_vars

\* a further helper call: the caller keeps the arguments and the value of the call before it
HelperReturnsNext(given, value, rel) ==
    /\ helperArgs' = given
    /\ helperValue' = value
    /\ prevNotes' = helperArgs
    /\ prevResult' = helperValue
    /\ calls' = calls + 1
    /\ relation' = rel
    /\ UNCHANGED <<activeNotes, passedNotes, matches, firstBest, bestTrace, result, CHORD_PATTERNS>>
    /\ UNCHANGED appVars

\* the context with one more pitch class in it; an omitted context becomes [pitchClass]
ContextWith(bassContext, pitchClass) ==
    IF Len(bassContext) = 0 THEN <<<<pitchClass>>>> ELSE <<Append(bassContext[1], pitchClass)>>

\* getRootSpelling for the same root, with one more pitch class in the context
SpellRootWithAdded ==
    /\ calls = 1
    /\ \E pitchClass \in 0..11 :
          /\ Len(helperArgs[2]) > 0 => ~ArrIncludes(helperArgs[2][1], pitchClass)
          /\ HelperReturnsNext(<<helperArgs[1], ContextWith(helperArgs[2], pitchClass)>>,
                               getRootSpelling(helperArgs[1], ContextWith(helperArgs[2], pitchClass)),
                               "added")

RootContextInit == HelperInitWith((0..11) \X Contexts)
RootContextNext == SpellRoot \/ SpellRootWithAdded
SpecRootContext == RootContextInit /\ [][RootContextNext]_vars

\* Pattern names of the catalog and the empty name; actual intervals from below the root
\* (a root played above the lowest note, down to MaxBelowRoot semitones) up to
\* MaxActualInterval.
MaxBelowRoot == 2
MaxActualInterval == 20
PatternNames == {""} \cup {PatternCatalog[i].name : i \in DOMAIN PatternCatalog}
ActualIntervalArgs == {<<>>} \cup {<<n>> : n \in (0 - MaxBelowRoot)..MaxActualInterval}

\* getChordToneWithTension(pitchClass, rootPitchClass, patternName[, actualInterval])
SpellTone ==
    /\ calls = 0
    /\ HelperReturns(helperArgs,
                     getChordToneWithTension(helperArgs[1], helperArgs[2], helperArgs[3], helperArgs[4]),
                     "first")

TensionInit == HelperInitWith((0..11) \X (0..11) \X PatternNames \X ActualIntervalArgs)
TensionNext == SpellTone
SpecTension == TensionInit /\ [][TensionNext]_vars

\* The three spelling functions, each called once: the call is the function's name
\* followed by its arguments.
SpellingCalls ==
    ({"getRootSpelling"} \X (0..11) \X Contexts)
        \cup ({"getChordToneSpelling"} \X (0..11) \X (0..11))
        \cup ({"getChordToneWithTension"} \X (0..11) \X (0..11) \X PatternNames \X ActualIntervalArgs)

\* getRootSpelling(rootPitchClass[, bassContext])
SpellRootName ==
    /\ calls = 0
    /\ helperArgs[1] = "getRootSpelling"
    /\ HelperReturns(helperArgs, getRootSpelling(helperArgs[2], helperArgs[3]), "first")

\* getChordToneSpelling(pitchClass, rootPitchClass)
SpellChordTone ==
    /\ calls = 0
    /\ helperArgs[1] = "getChordToneSpelling"
    /\ HelperReturns(helperArgs, getChordToneSpelling(helperArgs[2], helperArgs[3]), "first")

\* getChordToneWithTension(pitchClass, rootPitchClass, patternName[, actualInterval])
SpellToneName ==
    /\ calls = 0
    /\ helperArgs[1] = "getChordToneWithTension"
    /\ HelperReturns(helperArgs,
                     getChordToneWithTension(helperArgs[2], helperArgs[3], helperArgs[4], helperArgs[5]),
                     "first")

SpellingInit == HelperInitWith(SpellingCalls)
SpellingNext == SpellRootName \/ SpellChordTone \/ SpellToneName
SpecSpelling == SpellingInit /\ [][SpellingNext]_vars

\* ---------------------------------------------------------------------------
\* Properties
\* ---------------------------------------------------------------------------

Called == calls >= 1

\* the call returned a ChordAnalysis assembled from a Match (not null, not the fallback)
FromMatch == Called /\ result # Null /\ Len(matches) > 0

\* the call returned the raw fallback description
IsFallback == Called /\ result # Null /\ Len(matches) = 0

PitchClassesOf(arr) == {arr[k] % 12 : k \in DOMAIN arr}

\* C1: analyzeChord returns null if and only if the input sequence is empty;
\* every non-empty array of MIDI notes (duplicates, doublings, any order) gets
\* a ChordAnalysis.
C1_NullIffEmpty ==
    Called => /\ (result = Null <=> Len(activeNotes) = 0)
              /\ (result # Null => /\ result.root \in Range(NOTES) \cup Range(NOTES_FLAT)
                                   /\ result.detectedRootPitchClass \in 0..11)

C1_Witness ==
    /\ Called /\ relation = "shuffled" /\ result # Null
    /\ Len(activeNotes) = MaxNotes + 1
    /\ Cardinality(PitchClassesOf(activeNotes)) < Len(activeNotes)


\* the played pitch classes, counted in semitones above the pitch class `root`
IntervalsAbove(arr, root) == {(arr[k] - root + 12) % 12 : k \in DOMAIN arr}

\* C2 as stated: two inputs with the same pitch classes, in different octaves
\* or doublings, get the same quality and the same root pitch class.
C2_SameQualityAndRoot ==
    relation \in {"revoiced", "doubled"} =>
        /\ result.quality = prevResult.quality
        /\ result.detectedRootPitchClass = prevResult.detectedRootPitchClass

\* C2: two inputs with the same pitch classes, in different octaves or
\* doublings, get the same root pitch class, and the same quality too unless,
\* counted from that root, the played pitch classes hold both thirds (3 and 4
\* semitones) or the tritone (6 semitones), where the voicing picks the name.
C2_SameRootAndQualityUnlessVoiced ==
    relation \in {"revoiced", "doubled"} =>
        /\ result.detectedRootPitchClass = prevResult.detectedRootPitchClass
        /\ \/ result.quality = prevResult.quality
           \/ {3, 4} \subseteq IntervalsAbove(passedNotes, result.detectedRootPitchClass)
           \/ 6 \in IntervalsAbove(passedNotes, result.detectedRootPitchClass)

C2_Witness ==
    /\ relation = "revoiced"
    /\ PitchClassesOf(passedNotes) = PitchClassesOf(prevNotes)
    /\ passedNotes[1] # prevNotes[1]
    /\ result.quality = prevResult.quality
    /\ result.quality = "min7"
    /\ result.display # prevResult.display

\* C3 as stated: when some Match is exact, every exact Match scores strictly
\* higher than every superset, omitted-5th and rootless Match of the same call,
\* and the Match taken after the sort is an exact one.
C3_ExactOutranksFuzzy ==
    (Called /\ \E i \in DOMAIN matches : matches[i].isExact) =>
        /\ \A i, j \in DOMAIN matches :
              (matches[i].isExact /\ ~matches[j].isExact) => matches[i].score > matches[j].score
        /\ firstBest[1].isExact

\* C4: moving every note by the same number of whole octaves leaves the whole
\* ChordAnalysis as it was.
C4_OctaveTransposition ==
    relation = "octaves" => result = prevResult

C4_Witness ==
    /\ relation = "octaves"
    /\ passedNotes = Transposed(prevNotes, 12 * MaxOctaves)
    /\ FromMatch
    /\ result.isRootless
    /\ \E k \in DOMAIN result.actualIntervals : result.actualIntervals[k] > 12

\* C5: in a result taken from a Match, bass spells the lowest note's pitch
\* class, and display is root + quality, then " (rootless)" exactly when
\* isRootless, then "/" + bass exactly when the root is not the lowest pitch
\* class and the result is not rootless.
C5_BassAndDisplay ==
    FromMatch =>
        LET lowest == Min(Range(passedNotes)) % 12
        IN  /\ result.bass = getChordToneSpelling(lowest, result.detectedRootPitchClass)
            /\ result.display =
                  result.root \o result.quality
                  \o (IF result.isRootless THEN " (rootless)" ELSE "")
                  \o (IF result.detectedRootPitchClass # lowest /\ ~result.isRootless
                      THEN "/" \o result.bass ELSE "")

C5_Witness ==
    /\ FromMatch
    /\ relation = "shuffled"
    /\ ~result.isRootless
    /\ result.detectedRootPitchClass # Min(Range(passedNotes)) % 12
    /\ EndsWith(result.display, "/" \o result.bass)

\* the notes of arr that lie `interval` semitones (mod 12) above the pitch class root
NotesAbove(arr, root, interval) == {arr[k] : k \in {i \in DOMAIN arr : (arr[i] - root) % 12 = interval}}

\* arr is a dominant 7th chord on the pitch class root plus its minor third
IsDom7WithMinorThird(arr, root) == IntervalsAbove(arr, root) = {0, 3, 4, 7, 10}

\* C6: a dominant 7th chord with the note a minor third above the root added
\* is named with "#9" and without "b3" when the lowest added note lies above
\* the lowest major third, and with "(add b3)" and without "#9" when every
\* added note lies below the lowest major third and less than 14 semitones
\* above the lowest root.
C6_Sharp9OrFlat3 ==
    Called => \A root \in 0..11 :
        IsDom7WithMinorThird(passedNotes, root) =>
            LET added == NotesAbove(passedNotes, root, 3)
                lowestMaj3 == Min(NotesAbove(passedNotes, root, 4))
                lowestRoot == Min(NotesAbove(passedNotes, root, 0))
            IN  /\ Min(added) > lowestMaj3 =>
                      StrIncludes(result.quality, "#9") /\ ~StrIncludes(result.quality, "b3")
                /\ (Max(added) < lowestMaj3 /\ Max(added) - lowestRoot < 14) =>
                      StrIncludes(result.quality, "(add b3)") /\ ~StrIncludes(result.quality, "#9")

C6_Witness ==
    /\ Called
    /\ \E root \in 1..11 :
          /\ IsDom7WithMinorThird(passedNotes, root)
          /\ Cardinality(NotesAbove(passedNotes, root, 3)) = 2
          /\ Max(NotesAbove(passedNotes, root, 3)) < Min(NotesAbove(passedNotes, root, 4))
          /\ Min(NotesAbove(passedNotes, root, 0)) # passedNotes[1]
          /\ result.detectedRootPitchClass = root
    /\ result.quality = "7(add b3)"

\* C7: every voicing of a minor triad on r is analysed with root r, not
\* rootless, and named "m" or "madd#9".
C7_MinorTriad ==
    Called => \A root \in 0..11 :
        IntervalsAbove(passedNotes, root) = {0, 3, 7} =>
            /\ result.detectedRootPitchClass = root
            /\ result.isRootless = FALSE
            /\ result.quality \in {"m", "madd#9"}

C7_Witness ==
    /\ Called
    /\ IntervalsAbove(passedNotes, 9) = {0, 3, 7}
    /\ passedNotes[1] % 12 = 4
    /\ Len(passedNotes) > 3
    /\ result.display = "Amadd#9/E"

\* C8: the root-position close voicing of a major or diminished triad, Maj7,
\* 7, min7, m7b5, minMaj7, Maj7#5, 7#5 or 7sus4 chord on any root is analysed
\* with that root, the catalog name of the chord, not rootless, and a display
\* without a slash.
C8_RootPositionCloseVoicing ==
    Called => \A t \in CloseTypes :
        passedNotes = CloseVoicing(passedNotes[1], t) =>
            /\ result.detectedRootPitchClass = passedNotes[1] % 12
            /\ result.quality = t
            /\ result.isRootless = FALSE
            /\ ~StrIncludes(result.display, "/")

C8_Witness ==
    /\ Called
    /\ passedNotes = CloseVoicing(66, "Maj7#5")
    /\ result.display = "F#Maj7#5"

\* C9 as stated: the fallback is returned only for inputs with at least three
\* distinct pitch classes.
C9_FallbackOnlyForClusters ==
    IsFallback => Cardinality(PitchClassesOf(passedNotes)) >= 3

\* C9: the fallback (empty quality, the spelled notes as display) is returned
\* exactly when no Match is generated, which is exactly when the input holds
\* one pitch class only; every input with two or more pitch classes, however
\* dense, gets a Match.
C9_FallbackOnlyForOnePitchClass ==
    (Called /\ result # Null) =>
        /\ Len(matches) = 0 <=> Cardinality(PitchClassesOf(passedNotes)) = 1
        /\ Len(matches) = 0 =>
              /\ result.quality = ""
              /\ result.display = Join([k \in DOMAIN passedNotes |->
                                        getChordToneSpelling(passedNotes[k] % 12, passedNotes[1] % 12)],
                                    " ")

C9_Witness ==
    /\ IsFallback
    /\ relation = "doubled"
    /\ Len(passedNotes) = 2
    /\ passedNotes[2] = passedNotes[1] + 12
    /\ result.intervals = <<0>>

\* C10: a call leaves its input array and every entry of the catalog as they
\* were, so the same array analysed again gets an equal result, also after a
\* call that renamed its best pattern.
C10_SideEffectFree ==
    /\ CHORD_PATTERNS = PatternCatalog
    /\ Called => activeNotes = passedNotes
    /\ relation = "again" => result = prevResult

C10_Witness ==
    /\ relation = "again"
    /\ Len(matches) > 0
    /\ result.quality # CHORD_PATTERNS[firstBest[1].pattern].name
    /\ StrIncludes(result.quality, "(add b3)")

\* seq with its k-th entry repeated in place
WithRepeated(seq, k) == SubSeq(seq, 1, k) \o <<seq[k]>> \o SubSeq(seq, k + 1, Len(seq))

\* C11 as stated: the result does not depend on the order of the input, and a
\* second copy of a MIDI number already present changes nothing in the result
\* but actualIntervals.
C11_DuplicateChangesOnlyActualIntervals ==
    /\ relation = "reordered" => result = prevResult
    /\ relation = "duplicated" =>
          /\ result.root = prevResult.root
          /\ result.quality = prevResult.quality
          /\ result.bass = prevResult.bass
          /\ result.display = prevResult.display
          /\ result.intervals = prevResult.intervals
          /\ result.detectedRootPitchClass = prevResult.detectedRootPitchClass

\* C11: the result does not depend on the order of the input. A second copy
\* of a MIDI number already present changes nothing in a result taken from a
\* Match but the repeated entry it adds to actualIntervals; in the fallback
\* result, which has no actualIntervals, it adds the spelling of the repeated
\* note to display and changes nothing else.
C11_OrderAndDuplicates ==
    /\ relation = "reordered" => result = prevResult
    /\ relation = "duplicated" =>
          \A k \in DOMAIN prevNotes :
              passedNotes = Append(prevNotes, prevNotes[k]) =>
                  IF Len(matches) = 0
                  THEN result = [prevResult EXCEPT
                                    !.display = @ \o " " \o getChordToneSpelling(prevNotes[k] % 12,
                                                                                 prevNotes[1] % 12)]
                  ELSE result = [prevResult EXCEPT !.actualIntervals = WithRepeated(@, k)]

C11_Witness ==
    /\ relation = "duplicated"
    /\ FromMatch
    /\ Len(passedNotes) = MaxPairNotes + 1
    /\ passedNotes[Len(passedNotes)] = passedNotes[3]
    /\ result.actualIntervals[3] = result.actualIntervals[4]
    /\ result.actualIntervals[3] < 0

\* C12: normalizeIntervals returns a strictly ascending list of values in
\* 0..11 that are exactly the residues mod 12 of the given integers, negative
\* and compound ones included; normalizing the list again returns it unchanged.
C12_NormalizeIntervals ==
    Called =>
        /\ \A i, j \in DOMAIN helperValue : i < j => helperValue[i] < helperValue[j]
        /\ Range(helperValue) \subseteq 0..11
        /\ Range(helperValue) = {x % 12 : x \in Range(helperArgs)}
        /\ relation = "again" => helperValue = helperArgs

C12_Witness ==
    /\ Called
    /\ relation = "first"
    /\ helperArgs = <<0 - 5, 19>>
    /\ helperValue = <<7>>

\* C13: getRootSpelling names the natural pitch classes C, D, E, F, G, A, B
\* whatever the context, and without a context names the others C#, Eb, F#,
\* Ab, Bb.
C13_RootSpelling ==
    Called =>
        LET rootPitchClass == helperArgs[1]
            bassContext == helperArgs[2]
        IN  /\ rootPitchClass = 0 => helperValue = "C"
            /\ rootPitchClass = 2 => helperValue = "D"
            /\ rootPitchClass = 4 => helperValue = "E"
            /\ rootPitchClass = 5 => helperValue = "F"
            /\ rootPitchClass = 7 => helperValue = "G"
            /\ rootPitchClass = 9 => helperValue = "A"
            /\ rootPitchClass = 11 => helperValue = "B"
            /\ bassContext = <<>> =>
                  /\ rootPitchClass = 1 => helperValue = "C#"
                  /\ rootPitchClass = 3 => helperValue = "Eb"
                  /\ rootPitchClass = 6 => helperValue = "F#"
                  /\ rootPitchClass = 8 => helperValue = "Ab"
                  /\ rootPitchClass = 10 => helperValue = "Bb"

C13_Witness ==
    /\ Called
    /\ helperArgs = <<4, <<<<3, 5, 10>>>>>>
    /\ helperValue = "E"

\* a spelled note name read back: its letter's position, and its pitch class
LetterIndex(name) ==
    CASE SubSeq(name, 1, 1) = "C" -> 0 [] SubSeq(name, 1, 1) = "D" -> 1
      [] SubSeq(name, 1, 1) = "E" -> 2 [] SubSeq(name, 1, 1) = "F" -> 3
      [] SubSeq(name, 1, 1) = "G" -> 4 [] SubSeq(name, 1, 1) = "A" -> 5
      [] OTHER -> 6
Accidentals(name, sign) == Cardinality({i \in 2..Len(name) : SubSeq(name, i, i) = sign})
PitchClassOfName(name) ==
    (<<0, 2, 4, 5, 7, 9, 11>>[LetterIndex(name) + 1]
        + Accidentals(name, "#") - Accidentals(name, "b")) % 12
\* the scale degree (1..7) a name occupies above the root's name
DegreeOf(name, rootPitchClass) ==
    ((LetterIndex(name) - LetterIndex(Scale(rootPitchClass, 0))) % 7) + 1

\* getChordToneWithTension was called with an actualInterval
SpelledWithActualInterval == calls = 1 /\ Len(helperArgs) = 4 /\ Len(helperArgs[4]) > 0
ToneInterval == (helperArgs[1] - helperArgs[2]) % 12
\* the returned name sounds the requested pitch class on the given degree above the root
SpelledOnDegree(degree) ==
    /\ PitchClassOfName(helperValue) = helperArgs[1]
    /\ DegreeOf(helperValue, helperArgs[2]) = degree

IthSmallest(arr, i) ==
    CHOOSE v \in Range(arr) :
        /\ Cardinality({k \in DOMAIN arr : arr[k] < v}) < i
        /\ i <= Cardinality({k \in DOMAIN arr : arr[k] <= v})

\* the MIDI number the intervals are counted from: the lowest played note of the root's
\* pitch class or, when the root is not played, the root just below (or at) the lowest note
RootMidiOf(arr, root) ==
    IF \E k \in DOMAIN arr : arr[k] % 12 = root
    THEN Min({arr[k] : k \in {j \in DOMAIN arr : arr[j] % 12 = root}})
    ELSE Min(Range(arr)) - (((Min(Range(arr)) % 12) - root) % 12)

\* C15: in a result taken from a Match, actualIntervals has one entry per input note, in
\* ascending order of the notes; entry i is the i-th smallest note minus rootMidi, the lowest
\* played note of the returned root's pitch class or, if the root is not played, the lowest
\* note minus its interval above the root; so each entry is congruent mod 12 to its note's
\* interval from the root, and none is negative when the root is not played.
C15_ActualIntervals ==
    FromMatch =>
        LET root == result.detectedRootPitchClass
        IN  /\ Len(result.actualIntervals) = Len(passedNotes)
            /\ \A i \in DOMAIN result.actualIntervals :
                  /\ result.actualIntervals[i]
                        = IthSmallest(passedNotes, i) - RootMidiOf(passedNotes, root)
                  /\ result.actualIntervals[i] % 12 = (IthSmallest(passedNotes, i) - root) % 12
                  /\ root \notin PitchClassesOf(passedNotes) => result.actualIntervals[i] >= 0

\* an unplayed root under notes given out of order, one of them repeated, one above the octave
C15_Witness ==
    /\ FromMatch
    /\ result.detectedRootPitchClass \notin PitchClassesOf(passedNotes)
    /\ \E i, j \in DOMAIN passedNotes : i < j /\ passedNotes[i] > passedNotes[j]
    /\ \E i, j \in DOMAIN passedNotes : i < j /\ passedNotes[i] = passedNotes[j]
    /\ \E k \in DOMAIN result.actualIntervals : result.actualIntervals[k] > 12

\* the Matches that share the highest score of the Match list
TopMatches == {matches[k] : k \in {j \in DOMAIN matches :
                                     \A i \in DOMAIN matches : matches[i].score <= matches[j].score}}

\* Match a is pushed no later than Match b: played roots before implied ones, then the
\* lower root pitch class, then the earlier catalog pattern
PushedNoLater(a, b) ==
    \/ ~a.isRootless /\ b.isRootless
    \/ a.isRootless = b.isRootless /\ a.root < b.root
    \/ a.isRootless = b.isRootless /\ a.root = b.root /\ a.pattern <= b.pattern

\* C16 as stated: the Match taken as best before refinement has the highest score of all
\* Matches generated, and among the Matches sharing that score its pattern is the earliest
\* in the catalog.
C16_EarliestPatternWinsTies ==
    FromMatch =>
        /\ firstBest[1] \in TopMatches
        /\ \A m \in TopMatches : firstBest[1].pattern <= m.pattern

\* C16 (amended): the Match taken as best before refinement has the highest score of all
\* Matches generated; among the Matches sharing that score it is the first one generated:
\* a played root before an implied one, then the lowest root pitch class, and only at the
\* same root the earliest catalog pattern.
C16_BestIsFirstOfTopScore ==
    FromMatch =>
        /\ firstBest[1] \in TopMatches
        /\ \A m \in TopMatches : PushedNoLater(firstBest[1], m)

\* Fsus4 is taken for F Bb C although Bbsus2, earlier in the catalog, scores the same
C16_Witness ==
    /\ FromMatch
    /\ \E m \in TopMatches :
          /\ m.root > firstBest[1].root
          /\ m.pattern < firstBest[1].pattern
          /\ m.isRootless = firstBest[1].isRootless

\* the played pitch classes on which a Match of the highest score is rooted
TopPlayedRoots == {m.root : m \in {t \in TopMatches : ~t.isRootless}}

\* the chords that fit the same or an equally scored pattern at several played roots
IsSymmetricChord ==
    /\ FromMatch
    /\ Cardinality(TopPlayedRoots) > 1
    /\ \A m \in TopMatches :
          PatternCatalog[m.pattern].name \in {"aug", "dim7", "7b5", "sus2", "sus4"}

\* C17: for an augmented triad, a dim7, a 7b5 or a sus2/sus4 chord, when the lowest note is
\* one of the equally scored candidate roots, that pitch class is returned as the root and
\* the display has no slash.
C17_BassDecidesRoot ==
    (IsSymmetricChord /\ (Min(Range(passedNotes)) % 12) \in TopPlayedRoots) =>
        /\ result.detectedRootPitchClass = Min(Range(passedNotes)) % 12
        /\ ~StrIncludes(result.display, "/")

\* refinement block i (1: #9 vs b3, 2: #11 vs b5, 3: #5 vs b13) replaced best by another
\* Match of the list (a rename makes a fresh Match object instead)
Switched(i) ==
    /\ bestTrace[i + 1].best # bestTrace[i].best
    /\ bestTrace[i + 1].best \in Range(matches)

\* C18: every switch to an alternate candidate made by the refinement, the switch of a
\* non-7th "#9" pattern to "(add b3)" or "m(add 3)" included, takes a candidate at the same
\* root whose score is less than 150 points below the score of the Match it replaces.
C18_SwitchWithinTolerance ==
    FromMatch =>
        \A i \in 1..3 :
            Switched(i) =>
                /\ bestTrace[i + 1].best.root = bestTrace[i].best.root
                /\ bestTrace[i + 1].best.score > bestTrace[i].best.score - 150

\* C19: the refinement invents no Match and keeps the root: for every input that matched,
\* the returned detectedRootPitchClass and isRootless are those of the top-scoring Match,
\* and the returned intervals are the pattern intervals of a Match generated for the input
\* at that root; a rename changes only the quality string.
C19_RefinementKeepsRoot ==
    FromMatch =>
        /\ result.detectedRootPitchClass = firstBest[1].root
        /\ result.isRootless = firstBest[1].isRootless
        /\ \E k \in DOMAIN matches :
              /\ matches[k].root = result.detectedRootPitchClass
              /\ matches[k].isRootless = result.isRootless
              /\ PatternCatalog[matches[k].pattern].intervals = result.intervals
              /\ [bestTrace[4].best EXCEPT !.pattern = matches[k].pattern] = matches[k]
              /\ result.quality # PatternCatalog[matches[k].pattern].name
                    => bestTrace[4].best.pattern > Len(PatternCatalog)

\* the refinement switched to a Match of the list whose pattern has other intervals
C19_Witness ==
    /\ FromMatch
    /\ \E i \in 1..3 : Switched(i)
    /\ result.intervals # PatternCatalog[firstBest[1].pattern].intervals
    /\ result.quality # PatternCatalog[firstBest[1].pattern].name

\* the pitch classes played, as intervals above the returned root
IntervalsAboveRoot == {(passedNotes[k] - result.detectedRootPitchClass) % 12 : k \in DOMAIN passedNotes}

\* a perfect 5th, a 7th and the pitch class 8 semitones above the returned root are played
HasFifthSeventhAndEighth ==
    /\ FromMatch
    /\ {7, 8} \subseteq IntervalsAboveRoot
    /\ IntervalsAboveRoot \cap {10, 11} # {}

\* C20: when a perfect 5th, a 7th and the pitch class 8 semitones above the returned root
\* are all played, the returned quality does not contain "#5".
C20_NoSharp5WithFifthAndSeventh ==
    HasFifthSeventhAndEighth => ~StrIncludes(result.quality, "#5")

C20_Witness ==
    /\ HasFifthSeventhAndEighth
    /\ StrIncludes(result.quality, "b13")

\* the pitch class the second call added to the context of the first
AddedPitchClass == helperArgs[2][1][Len(helperArgs[2][1])]
SharpNames == {"C#", "D#", "F#", "G#", "A#"}
FlatNames == {"Db", "Eb", "Gb", "Ab", "Bb"}

\* C21 as stated: for the roots 1, 3, 6, 8, 10 and any context, adding a sharp indicator
\* (6, 1, 8, 4 or 11) never turns the sharp name into the flat name, and adding a flat
\* indicator (10, 3 or 5) never turns the flat name into the sharp name.
C21_IndicatorsPushOneWay ==
    (relation = "added" /\ helperArgs[1] \in {1, 3, 6, 8, 10}) =>
        /\ AddedPitchClass \in {6, 1, 8, 4, 11} =>
              ~(prevResult \in SharpNames /\ helperValue \in FlatNames)
        /\ AddedPitchClass \in {10, 3, 5} =>
              ~(prevResult \in FlatNames /\ helperValue \in SharpNames)

\* C21 (amended): as stated for the roots 1, 3, 8 and 10. For the root 6 the pitch classes
\* 1 and 8 count as evidence for Gb: adding 4, 11 or 6 never turns F# into Gb, adding 1 or
\* 8 turns F# into Gb exactly when the context has a flat indicator and neither 4 nor 11
\* and had neither 1 nor 8 before, and adding a flat indicator never turns Gb into F#.
C21_IndicatorsPushOneWayButForGb ==
    (relation = "added" /\ helperArgs[1] \in {1, 3, 6, 8, 10}) =>
        /\ helperValue \in SharpNames \cup FlatNames
        /\ (AddedPitchClass \in {6, 1, 8, 4, 11}
              /\ ~(helperArgs[1] = 6 /\ AddedPitchClass \in {1, 8})) =>
              ~(prevResult \in SharpNames /\ helperValue \in FlatNames)
        /\ (helperArgs[1] = 6 /\ AddedPitchClass \in {1, 8}) =>
              ((prevResult = "F#" /\ helperValue = "Gb")
                  <=> /\ Len(prevNotes[2]) > 0
                      /\ Range(prevNotes[2][1]) \cap {10, 3, 5} # {}
                      /\ Range(prevNotes[2][1]) \cap {4, 11, 1, 8} = {})
        /\ AddedPitchClass \in {10, 3, 5} =>
              ~(prevResult \in FlatNames /\ helperValue \in SharpNames)

\* Bb in the context leaves F#; Db added to it gives Gb
C21_Witness ==
    /\ relation = "added"
    /\ prevNotes = <<6, <<<<10>>>>>>
    /\ AddedPitchClass = 1
    /\ prevResult = "F#"
    /\ helperValue = "Gb"

\* the non-root intervals of the returned pattern that are played above the returned root
PlayedPatternTones == (Range(result.intervals) \ {0}) \cap IntervalsAboveRoot

\* C22: in a result taken from a Match, isRootless is true exactly when the returned root
\* is not among the played pitch classes, and then the returned intervals are those of a
\* pattern with at least 4 intervals, at least two of them non-root intervals that are
\* played above that root.
C22_RootlessIffRootNotPlayed ==
    FromMatch =>
        /\ result.isRootless <=> result.detectedRootPitchClass \notin PitchClassesOf(passedNotes)
        /\ result.isRootless =>
              /\ Len(result.intervals) >= 4
              /\ Cardinality(PlayedPatternTones) >= 2

\* a rootless result that rests on just two played tones
C22_Witness ==
    /\ FromMatch
    /\ result.isRootless
    /\ Cardinality(PlayedPatternTones) = 2
    /\ Cardinality(PitchClassesOf(passedNotes)) = 2

\* C23: transposing every note by the same number k of semitones moves
\* detectedRootPitchClass by k mod 12 and leaves quality, isRootless, intervals and
\* actualIntervals as they were.
C23_TranspositionEquivariant ==
    (relation = "shifted" /\ FromMatch) =>
        /\ result.detectedRootPitchClass
              = (prevResult.detectedRootPitchClass + (passedNotes[1] - prevNotes[1])) % 12
        /\ result.quality = prevResult.quality
        /\ result.isRootless = prevResult.isRootless
        /\ result.intervals = prevResult.intervals
        /\ result.actualIntervals = prevResult.actualIntervals

\* the last two calls were given the same set of pitch classes
SamePitchClassesAgain ==
    /\ calls = 2
    /\ Len(passedNotes) > 0 /\ Len(prevNotes) > 0
    /\ PitchClassesOf(passedNotes) = PitchClassesOf(prevNotes)

InRootPosition ==
    /\ FromMatch
    /\ ~result.isRootless
    /\ JsRem(Min(Range(passedNotes)), 12) = result.detectedRootPitchClass

\* C25: whenever the lowest played note has the pitch class of the returned
\* root and the match is not rootless, the returned bass string is the
\* returned root string.
C25_BassIsRootInRootPosition ==
    InRootPosition => result.bass = result.root

\* a letter A..G followed by sharps only or by flats only
IsNoteName(name) ==
    /\ Len(name) >= 1
    /\ SubSeq(name, 1, 1) \in {"A", "B", "C", "D", "E", "F", "G"}
    /\ \/ \A i \in 2..Len(name) : SubSeq(name, i, i) = "#"
       \/ \A i \in 2..Len(name) : SubSeq(name, i, i) = "b"

\* C26: every name returned by getRootSpelling, getChordToneSpelling and
\* getChordToneWithTension is a note name (a letter with sharps or with flats)
\* that denotes the pitch class the call asked for, the first argument.
C26_NameDenotesPitchClass ==
    calls = 1 =>
        /\ IsNoteName(helperValue)
        /\ PitchClassOfName(helperValue) = helperArgs[2]

\* a double sharp is returned: the raised 2nd above C# is D##, pitch class 4
C26_Witness ==
    /\ calls = 1
    /\ helperArgs[1] = "getChordToneWithTension"
    /\ helperArgs[3] = 1
    /\ helperValue = "D##"
    /\ helperArgs[2] = 4

\* the chord panel shows a name for each sounding note of a recognised chord
PanelShown == calls = 1 /\ Len(noteNames) > 0 /\ FromMatch
\* the interval above the detected root of the note at noteIndex, and the degree of its name
PanelInterval(noteIndex) ==
    (SortAsc(passedNotes)[noteIndex] - result.detectedRootPitchClass) % 12
PanelDegree(noteIndex) == DegreeOf(noteNames[noteIndex], result.detectedRootPitchClass)

\* C27: in the chord panel, the tone a minor third above the root is spelled as a
\* raised 2nd only if the quality contains "#9", and the tone 8 semitones above the
\* root is spelled as a raised 5th whenever the quality contains "#5" or "aug".
C27_PanelAgreesWithQuality ==
    PanelShown =>
        \A noteIndex \in DOMAIN noteNames :
            /\ (PanelInterval(noteIndex) = 3 /\ PanelDegree(noteIndex) = 2)
                    => StrIncludes(result.quality, "#9")
            /\ (PanelInterval(noteIndex) = 8
                    /\ (StrIncludes(result.quality, "#5") \/ StrIncludes(result.quality, "aug")))
                    => PanelDegree(noteIndex) = 5

\* the target chord has just been held
TargetHeld == relation = "held"

\* C28: holding the tones of the target chord in root-position close voicing makes
\* analyzeChord return the target's root pitch class and the target's quality, and
\* the match effect scores.
C28_TargetCanBeMatched ==
    TargetHeld =>
        /\ result.detectedRootPitchClass = rootToPitchClass(targetChord[1].root)
        /\ result.quality = targetChord[1].quality
        /\ hasMatchedRef
        /\ feedback = "correct"

\* C30: every id in selectedCardIds is the id of a card of the master track, and
\* selectionAnchor is null or one of the ids in selectedCardIds.
C30_SelectionWithinCards ==
    /\ \A k \in DOMAIN selectedCardIds : ArrIncludes(IdsOf(master), selectedCardIds[k])
    /\ selectionAnchor = <<>> \/ ArrIncludes(selectedCardIds, selectionAnchor[1])

\* the anchor of a selection of two cards has been removed: the other card stays
\* selected, and there is no anchor
C30_Witness ==
    /\ IdsOf(master) = <<1>>
    /\ selectedCardIds = <<1>>
    /\ selectionAnchor = <<>>

\* the notes of the cards of the history
HistoryNotes == UNION {Range(master[k].notes) : k \in DOMAIN master}

\* C29: once the pedal has been released, every note that was held when the pedal
\* went down or was struck while it was down is among the notes of a card of the
\* history, the note buffer is empty and no flush timer is pending.
C29_PedalNotesReachHistory ==
    ~isPedalDownRef =>
        /\ pedalNotes \subseteq HistoryNotes
        /\ noteBufferRef = <<>>
        /\ clusterTimerRef = <<>>


====
